---- MODULE Spec2Model ----
(***************************************************************************)
(* pmount / pumount: concurrent invocations of the setuid mount wrapper    *)
(* and of its unmount counterpart, sharing the on-disk state they          *)
(* coordinate through (mount table, mount point directories, the sentinel  *)
(* files of lock_dir, the per-device pid lock directories, the loop device *)
(* and the LUKS mapping with its ownership lockfile).                      *)
(*                                                                         *)
(* Each process slot runs one invocation of main() at a time; an action is *)
(* one step of main() between two accesses to shared state.  External      *)
(* programs are run synchronously by spawnl(), so a spawn and the effect   *)
(* of the program are one step.  Environment faults that the code answers  *)
(* with exit(E_INTERNAL) wherever they occur (fork or wait failing, a      *)
(* child killed by a signal, a privilege change refused, an unreadable     *)
(* system table, out of memory), and a file or directory that root cannot  *)
(* create, are outside the model.  The one such fault that main() answers  *)
(* with a warning, a luks lockfile that cannot be created, is part of      *)
(* SeqSpec, the specification of invocations that run one after another.   *)
(***************************************************************************)
EXTENDS Integers, Sequences, FiniteSets, TLC

(* ---- bounds ---- *)
NumProcs == 2
MaxRuns == 3

(* ---- exit codes, src/src/utils.c ---- *)
E_ARGS == 1
E_DEVICE == 2
E_MNTPT == 3
E_POLICY == 4
E_EXECMOUNT == 5
E_EXECUMOUNT == 5
E_UNLOCK == 6
E_PID == 7
E_LOCKED == 8
E_DISALLOWED == 9
E_LOSETUP == 10
E_INTERNAL == 100
EXIT_SUCCESS == 0
EXIT_FAILURE == 1

Procs == 1 .. NumProcs
\* sentinel files that can exist at once: the linked one, and per process the
\* one lock_dir opened and the one unlock_dir opened
Inodes == 1 .. (2 * NumProcs + 1)
\* pids of the processes a lock can be held for
Pids == {41, 42}
\* unsigned and pid_t are words of the same width, pid_t in two's
\* complement: the upper half of the unsigned values is negative as a pid_t.
\* The word is 32 bits wide in the build and WordBits wide here, which keeps
\* the numbers within the model checker's integers.
WordBits == 8
UnsignedRange == 2 ^ WordBits
PidTRange == 2 ^ (WordBits - 1)
\* the value do_lock / do_unlock receive in their pid_t parameter
to_pid_t(u) == IF u >= PidTRange THEN u - UnsignedRange ELSE u
\* pid arguments of --lock / --unlock that parse_unsigned accepts: 0 (also
\* the empty string), the pid of a process, and a number that is negative
\* as a pid_t and so names the process group of a process
PidArgs == {0, 41, UnsignedRange - 42}
\* mount point directories below MEDIADIR
Mntpts == {"m1"}
\* raw devices a policy check can be about: the block device of the
\* argument, or the loop device bound to an image file
RawDevs == {"sda1", "loop0"}
\* /dev/mapper/<label>, label = device with '/' replaced by '_'
Mapped(d) == "dm_" \o d
NoDev == "none"

VARIABLES
    proc,       \* per slot: the locals of main() of the running invocation
    runs,       \* number of invocations started so far
    mounted,    \* live mount table: mount point -> mounted device
    dir,        \* mount point directory: absent, stamped (made by pmount), plain
    sentinel,   \* /var/lock/pmount_<dir>: inode the path names, 0 = none
    lockf,      \* inode -> process owning the POSIX lock on it, 0 = none
    lockdir,    \* LOCKDIR/<device> exists
    lockfiles,  \* pid files inside LOCKDIR/<device>
    alive,      \* pids that denote a live process
    loopBound,  \* loop0 is bound to a file
    luksMap,    \* raw devices whose /dev/mapper node exists
    luksLock,   \* raw devices whose luks ownership lockfile exists
    image,      \* the image file path, the files and the loop devices (LoopSpec)
    call,       \* the locals of a running call of loop.c (LoopSpec)
    probe,     \* the filesystem probe of one mount: inputs, position, attempts (ProbeSpec)
    opt,       \* main() of pmount up to the configuration file: options, configuration (OptSpec)
    cred,      \* the user and group ids of one process and where it is between its privilege changes (PrivSpec)
    mt,        \* the mount tables, the caller and one device query of pumount (MtabSpec)
    sp,        \* one call of spawnv: options, program, position, child (SpawnSpec)
    nm         \* pmount's device argument on its way to a mount point name

vars == <<proc, runs, mounted, dir, sentinel, lockf, lockdir,
          lockfiles, alive, loopBound, luksMap, luksLock, image, call, probe, opt, cred, mt, sp, nm>>

env == <<mounted, dir, sentinel, lockf, lockdir, lockfiles, alive,
         loopBound, luksMap, luksLock, image, call, probe, opt, cred, mt, sp, nm>>

\* the state of main() and of what it shares, which loop.c does not read
main_vars == <<proc, runs, mounted, dir, sentinel, lockf, lockdir,
               lockfiles, alive, loopBound, luksMap, luksLock>>

\* no image file is looked at and no function of loop.c is running
NoFile == 0
NoStat == [st_dev |-> 0, st_mode |-> {}, st_uid |-> "none"]
NoImage == [source |-> NoFile]
NoCall == [pc |-> "none", fn |-> "none", before |-> NoStat, verified |-> NoFile,
           device |-> "NULL", result |-> 0, nb_tries |-> 0, attempts |-> 0,
           passed |-> {}, bound |-> NoFile, target |-> "NULL", ret |-> 0]

\* no mount is probing for a filesystem
NoProbe == [pc |-> "none"]

\* no invocation is reading its options
NoOpt == [pc |-> "none"]

\* no process is looked at for its ids
NoCred == [pc |-> "none"]

\* no mount table is looked up
NoMt == [pc |-> "none"]

\* no program is spawned
NoSp == [pc |-> "none"]

\* no device argument is being resolved
NoNm == [pc |-> "none"]

\* what the policy functions will find about the device and the mount point
\* of an invocation: facts of the machine that no invocation changes
NoFacts ==
    [valid |-> FALSE, allowlisted |-> FALSE, removable |-> FALSE,
     fstab_mntpt |-> FALSE, not_empty |-> FALSE]

\* the locals of an invocation that has not started
Idle ==
    [pc |-> "idle", mode |-> "MOUNT", device |-> NoDev, mntpt |-> "m1",
     doing_loop_mount |-> FALSE, decrypt |-> "DECRYPT_NOTENCRYPTED",
     result |-> 0, f |-> 0, uf |-> 0, pid |-> 0, code |-> 0, facts |-> NoFacts,
     \* history of the invocation, read by the properties only
     admitted |-> FALSE, created |-> FALSE, inLock |-> FALSE,
     toolsInLock |-> {}, toolsOutLock |-> {}, phases |-> <<>>, execd |-> FALSE]

Init ==
    /\ proc = [p \in Procs |-> Idle]
    /\ runs = 0
    /\ mounted = [m \in Mntpts |-> NoDev]
    /\ dir \in [Mntpts -> {"absent", "plain"}]
    /\ sentinel = [m \in Mntpts |-> 0]
    /\ lockf = [i \in Inodes |-> 0]
    /\ lockdir = [d \in RawDevs |-> FALSE]
    /\ lockfiles = [d \in RawDevs |-> {}]
    /\ alive = Pids
    /\ loopBound = FALSE
    /\ luksMap = {}
    /\ luksLock = {}
    /\ image = NoImage
    /\ call = NoCall
    /\ probe = NoProbe
    /\ opt = NoOpt
    /\ cred = NoCred
    /\ mt = NoMt
    /\ sp = NoSp
    /\ nm = NoNm

(* ---- helpers ---- *)

\* the kernel drops every POSIX lock of a process that exits
ExitLocks(p) == [i \in Inodes |-> IF lockf[i] = p THEN 0 ELSE lockf[i]]

\* an invocation that ended with exit status c: its file descriptors are
\* closed and its locals are gone; what it was asked and the programs it
\* ran stay on record
Exited(r, c) ==
    [Idle EXCEPT !.pc = "done", !.code = c, !.mode = r.mode, !.device = r.device,
                 !.execd = r.execd, !.toolsInLock = r.toolsInLock,
                 !.toolsOutLock = r.toolsOutLock]

\* /dev/mapper/<label> once luks_decrypt opened it, else the device itself
decrypted_device(r) ==
    IF r.decrypt = "DECRYPT_OK" THEN Mapped(r.device) ELSE r.device

\* an external program was spawned: remember whether lock_dir's lock was held
Spawned(r, tool) ==
    IF r.inLock THEN [r EXCEPT !.toolsInLock = @ \cup {tool}]
    ELSE [r EXCEPT !.toolsOutLock = @ \cup {tool}]

\* loopdev_dissociate(device) as main() calls it: only for a loop mount;
\* it returns once losetup -d has succeeded
Dissociated(r) ==
    IF r.doing_loop_mount THEN Spawned(r, "losetup") ELSE r
LoopAfterDissociate(r) == IF r.doing_loop_mount THEN FALSE ELSE loopBound

(* ---- policy functions, src/src/policy.c ---- *)

device_mounted(d) == \E m \in Mntpts : mounted[m] = d
\* is_dir(lockdirname), on the lock directories ld
device_locked(ld, d) == ld[d]
mntpt_mounted(m) == mounted[m] # NoDev
\* the verdict of mntpt_valid: not an fstab mount point, assert_dir succeeds
\* and assert_emptydir finds nothing but the stamp file
mntpt_valid(fstabMntpt, notEmpty) == ~fstabMntpt /\ ~notEmpty
\* assert_dir(dir, 1): a missing directory is created with its stamp file
assert_dir(m) == IF dir[m] = "absent" THEN [dir EXCEPT ![m] = "stamped"] ELSE dir

\* the conjuncts of check_mount_policy that are evaluated before mntpt_valid
PolicyBeforeMntpt(valid, dmounted, doing_loop, allow, removable, locked) ==
    valid /\ ~dmounted /\ (doing_loop \/ allow \/ removable) /\ ~locked

\* faulty variant: the device class (loop, allowlisted, removable) is not checked
check_mount_policy_anyDevice(valid, dmounted, doing_loop, allow, removable, locked, mvalid, mmounted) ==
    valid /\ ~dmounted /\ ~locked /\ mvalid /\ ~mmounted

check_mount_policy(valid, dmounted, doing_loop, allow, removable, locked, mvalid, mmounted) ==
    PolicyBeforeMntpt(valid, dmounted, doing_loop, allow, removable, locked)
        /\ mvalid /\ ~mmounted

\* pid_exists(pid) on the live processes a: kill(pid, 0) == 0 as root; 0 is
\* the caller's own process group, -1 every process, a lesser number the
\* process group -pid, which lives as long as its leader here
pid_exists(a, pid) ==
    CASE pid > 0 -> pid \in a
      [] pid \in {0, -1} -> TRUE
      [] OTHER -> (0 - pid) \in a

\* parse_unsigned(s, exitcode) on the decimal numeral of n returns n, and
\* exits when the numeral has a minus sign
parse_unsigned_exits(n) == n < 0

\* clean_lock_dir(device): the pid files it keeps when it reads the whole
\* directory: those of pids that exist; then rmdir
CleanFiles(d) ==
    IF lockdir[d] THEN {n \in lockfiles[d] : pid_exists(alive, n)} ELSE lockfiles[d]
CleanDir(d) == lockdir[d] /\ CleanFiles(d) # {}
\* clean_lock_dir exits in parse_unsigned when readdir comes to a name
\* that is not an unsigned number
CleanExits(d) == lockdir[d] /\ \E n \in lockfiles[d] : parse_unsigned_exits(n)
\* and then it has unlinked the stale files readdir returned before that name
CleanPartial(d) ==
    {fs \in SUBSET lockfiles[d] :
        /\ CleanFiles(d) \subseteq fs
        /\ \E n \in fs : parse_unsigned_exits(n)}

\* a remove_pmount_mntpt that leaves the directory
remove_pmount_mntpt_keep(m, busy) == dir

\* remove_pmount_mntpt(path): if the stamp file can be unlinked, rmdir, which
\* fails on a directory something is mounted on
remove_pmount_mntpt(m, busy) ==
    IF dir[m] # "stamped" THEN dir
    ELSE IF busy THEN [dir EXCEPT ![m] = "plain"]
    ELSE [dir EXCEPT ![m] = "absent"]
\* its result: 0, or that of the failed rmdir
remove_failed(m, busy) == dir[m] = "stamped" /\ busy

(* ---- pmount main() ---- *)

\* slots are interchangeable: a new invocation takes the lowest free one
FreeSlot(p) ==
    /\ proc[p].pc \in {"idle", "done"}
    /\ \A q \in Procs : q < p => proc[q].pc \notin {"idle", "done"}

\* faulty variant: luks_decrypt is called before the policy check
NextPhase_decryptFirst(pc) ==
    CASE pc = "resolve" -> "decrypt"
      [] pc = "decrypt" -> "policy"
      [] pc = "policy" -> "lock_creat"
      [] pc = "lock_try" -> "fsck"
      [] pc = "fsck" -> "mount"
      [] OTHER -> "unlock_open"

\* faulty variant: luks_decrypt is called after lock_dir
NextPhase_lockFirst(pc) ==
    CASE pc = "resolve" -> "policy"
      [] pc = "policy" -> "lock_creat"
      [] pc = "lock_try" -> "decrypt"
      [] pc = "decrypt" -> "fsck"
      [] pc = "fsck" -> "mount"
      [] OTHER -> "unlock_open"

\* the mount case of main() from one phase to the next, as long as nothing
\* fails: the policy check, luks_decrypt, lock_dir, do_fsck, do_mount,
\* unlock_dir
NextPhase(pc) ==
    CASE pc = "resolve" -> "policy"
      [] pc = "policy" -> "decrypt"
      [] pc = "decrypt" -> "lock_creat"
      [] pc = "lock_try" -> "fsck"
      [] pc = "fsck" -> "mount"
      [] OTHER -> "unlock_open"

\* after the device is settled, main() branches on the mode
AfterResolve(mode) ==
    CASE mode = "MOUNT" -> NextPhase("resolve")
      [] mode = "LOCK" -> "do_lock"
      [] OTHER -> "do_unlock"

\* the facts an invocation can find: mount mode reads them in
\* check_mount_policy, left to right, and what it never reads is left out;
\* --lock and --unlock read device_valid only
Facts ==
    [valid : BOOLEAN, allowlisted : BOOLEAN, removable : BOOLEAN,
     fstab_mntpt : BOOLEAN, not_empty : BOOLEAN]
FactsOf(mode, loop) ==
    IF mode # "MOUNT" THEN {NoFacts, [NoFacts EXCEPT !.valid = TRUE]}
    ELSE {x \in Facts :
            /\ ~x.valid => x = NoFacts
            /\ loop => ~x.allowlisted /\ ~x.removable
            /\ ~(loop \/ x.allowlisted \/ x.removable) => ~x.fstab_mntpt /\ ~x.not_empty
            /\ x.fstab_mntpt => ~x.not_empty}

\* a new invocation of pmount: main() from the arguments to the DEVDIR
\* test, with a pid argument out of pidargs
StartIn(p, pidargs) ==
    /\ FreeSlot(p)
    /\ runs < MaxRuns
    /\ runs' = runs + 1
    /\ UNCHANGED <<mounted, dir, sentinel, lockf, lockdir, lockfiles, alive, image, call, probe, opt, cred, mt, sp, nm,
                   luksMap, luksLock>>
    /\ \E mode \in {"MOUNT", "LOCK", "UNLOCK"}, pid \in pidargs, m \in Mntpts :
       LET r == [Idle EXCEPT !.mode = mode,
                             !.pid = IF mode = "MOUNT" THEN 0 ELSE to_pid_t(pid),
                             !.mntpt = m,
                             !.phases = <<"Resolve">>]
       IN
       /\ mode # "MOUNT" \/ \A q \in pidargs : pid <= q
       /\ \/ \* neither the argument nor /dev/<argument> resolves
             /\ proc' = [proc EXCEPT ![p] = Exited(r, E_DEVICE)]
             /\ UNCHANGED loopBound
          \/ \* device handled by /etc/fstab: do_mount_fstab execs mount
             /\ mode = "MOUNT"
             /\ \E st \in {EXIT_SUCCESS, E_EXECMOUNT} :
                  proc' = [proc EXCEPT ![p] =
                      Exited([r EXCEPT !.device = "sda1", !.execd = TRUE], st)]
             /\ UNCHANGED loopBound
          \/ \* a block device
             /\ \E facts \in FactsOf(mode, FALSE) :
                  /\ facts.not_empty => dir[m] = "plain"
                  /\ proc' = [proc EXCEPT ![p] =
                         [r EXCEPT !.device = "sda1", !.facts = facts,
                                   !.pc = AfterResolve(mode)]]
             /\ UNCHANGED loopBound
          \/ \* a regular file and !conffile_allow_loop()
             /\ proc' = [proc EXCEPT ![p] = Exited(r, E_DISALLOWED)]
             /\ UNCHANGED loopBound
          \/ \* a regular file, loopdev_associate fails: not the owner's
             \* file, or no unused loop device
             /\ proc' = [proc EXCEPT ![p] =
                    Exited([r EXCEPT !.phases = Append(@, "LoopSetup")], E_LOSETUP)]
             /\ UNCHANGED loopBound
          \/ \* a regular file, bound to the loop device, in every mode
             /\ ~loopBound
             /\ loopBound' = TRUE
             /\ \E facts \in FactsOf(mode, TRUE) :
                  /\ facts.not_empty => dir[m] = "plain"
                  /\ proc' = [proc EXCEPT ![p] =
                         [Spawned(r, "losetup") EXCEPT
                              !.phases = Append(@, "LoopSetup"),
                              !.device = "loop0", !.doing_loop_mount = TRUE,
                              !.facts = facts, !.pc = AfterResolve(mode)]]

\* concurrent invocations lock and unlock for the pid of a process
Start(p) == StartIn(p, {41})

\* make_mountpoint_name, clean_lock_dir(device), then check_mount_policy,
\* whose mntpt_valid creates a missing mount point directory
Policy(p) ==
    LET r == proc[p]
        d == r.device
        m == r.mntpt
        x == r.facts
    IN
    /\ r.pc = "policy"
    /\ UNCHANGED <<runs, mounted, sentinel, lockf, alive, image, call, probe, opt, cred, mt, sp, nm, luksMap, luksLock>>
    /\ \/ \* label empty, too long or with a '/'
          /\ proc' = [proc EXCEPT ![p] = Exited(Dissociated(r), E_MNTPT)]
          /\ loopBound' = LoopAfterDissociate(r)
          /\ UNCHANGED <<lockdir, lockfiles, dir>>
       \/ \* clean_lock_dir exits on a pid file name it cannot parse
          /\ CleanExits(d)
          /\ \E fs \in CleanPartial(d) : lockfiles' = [lockfiles EXCEPT ![d] = fs]
          /\ proc' = [proc EXCEPT ![p] = Exited(r, E_INTERNAL)]
          /\ UNCHANGED <<lockdir, dir, loopBound>>
       \/ LET locked == device_locked([lockdir EXCEPT ![d] = CleanDir(d)], d)
              before == PolicyBeforeMntpt(x.valid, device_mounted(d), r.doing_loop_mount,
                                          x.allowlisted, x.removable, locked)
              ok == check_mount_policy(x.valid, device_mounted(d), r.doing_loop_mount,
                                       x.allowlisted, x.removable, locked,
                                       mntpt_valid(x.fstab_mntpt, x.not_empty),
                                       mntpt_mounted(m))
              h == [r EXCEPT
                      !.phases = Append(@, "PolicyCheck"),
                      !.facts = NoFacts,
                      !.admitted = ok,
                      !.created = before /\ ~x.fstab_mntpt /\ dir[m] = "absent"]
          IN
          /\ ~CleanExits(d)
          /\ lockfiles' = [lockfiles EXCEPT ![d] = CleanFiles(d)]
          /\ lockdir' = [lockdir EXCEPT ![d] = CleanDir(d)]
          /\ dir' = IF before /\ ~x.fstab_mntpt THEN assert_dir(m) ELSE dir
          /\ IF ok
             THEN /\ proc' = [proc EXCEPT ![p] = [h EXCEPT !.pc = NextPhase("policy")]]
                  /\ UNCHANGED loopBound
             ELSE /\ proc' = [proc EXCEPT ![p] = Exited(Dissociated(h), E_POLICY)]
                  /\ loopBound' = LoopAfterDissociate(r)

\* exit statuses of an external program: success, 1, and any other
ToolStatus == {0, 1, 2}

\* faulty variant: luksOpen is run although the mapped device exists
luks_decrypt_noExistsTest(isLuks, exists, luksOpen) ==
    IF isLuks # 0 THEN "DECRYPT_NOTENCRYPTED"
    ELSE IF luksOpen = 0 THEN "DECRYPT_OK"
    ELSE IF luksOpen = 1 THEN "DECRYPT_FAILED"
    ELSE "exit"

\* luks_decrypt(device, &decrypted, password_file, readonly): its result for
\* the exit status of cryptsetup isLuks, whether /dev/mapper/<label> exists,
\* and the exit status of cryptsetup luksOpen; "exit" when it exits
luks_decrypt(isLuks, exists, luksOpen) ==
    IF isLuks # 0 THEN "DECRYPT_NOTENCRYPTED"
    ELSE IF exists THEN "DECRYPT_EXISTS"
    ELSE IF luksOpen = 0 THEN "DECRYPT_OK"
    ELSE IF luksOpen = 1 THEN "DECRYPT_FAILED"
    ELSE "exit"

\* faulty variant: no lockfile is written
luks_create_lockfile_none(locks, d, made) == locks

\* luks_create_lockfile(decrypted_device): the lockfiles there are then,
\* when the file can be made or not
luks_create_lockfile(locks, d, made) ==
    IF made THEN locks \cup {d} ELSE locks

\* the programs luks_decrypt has spawned when it returns or exits
luks_decrypt_spawns(r, isLuks, exists) ==
    IF isLuks # 0 \/ exists THEN Spawned(r, "cryptsetup")
    ELSE Spawned(Spawned(r, "cryptsetup"), "luksOpen")

\* open(device), then luks_decrypt and luks_create_lockfile, when open
\* succeeds or not, cryptsetup answers isLuks and luksOpen with these exit
\* statuses, and luks_create_lockfile returns lockfile
OpenDecryptWith(p, opened, isLuks, luksOpen, lockfile) ==
    LET r == proc[p]
        d == r.device
        res == luks_decrypt(isLuks, d \in luksMap, luksOpen)
        s == [luks_decrypt_spawns(r, isLuks, d \in luksMap) EXCEPT
                 !.phases = Append(@, "Decrypt")]
    IN
    /\ r.pc = "decrypt"
    /\ UNCHANGED <<runs, mounted, dir, sentinel, lockf, lockdir,
                   lockfiles, alive, image, call, probe, opt, cred, mt, sp, nm>>
    /\ IF ~opened
       THEN \* open(device, O_RDONLY) fails, e.g. no medium
            /\ proc' = [proc EXCEPT ![p] = Exited(r, E_DEVICE)]
            /\ UNCHANGED <<loopBound, luksMap, luksLock>>
       ELSE CASE res = "DECRYPT_NOTENCRYPTED" ->
                   /\ proc' = [proc EXCEPT ![p] =
                          [s EXCEPT !.decrypt = res, !.pc = NextPhase("decrypt")]]
                   /\ UNCHANGED <<loopBound, luksMap, luksLock>>
              [] res \in {"DECRYPT_EXISTS", "DECRYPT_FAILED"} ->
                   /\ proc' = [proc EXCEPT ![p] =
                          Exited(Dissociated([s EXCEPT !.decrypt = res]), E_POLICY)]
                   /\ loopBound' = LoopAfterDissociate(r)
                   /\ UNCHANGED <<luksMap, luksLock>>
              [] res = "exit" ->
                   /\ proc' = [proc EXCEPT ![p] = Exited(s, E_INTERNAL)]
                   /\ UNCHANGED <<loopBound, luksMap, luksLock>>
              [] res = "DECRYPT_OK" ->
                   \* the mapping is there; luks_create_lockfile(decrypted_device),
                   \* whose failure is answered with a warning
                   /\ luksMap' = luksMap \cup {d}
                   /\ luksLock' = luks_create_lockfile(luksLock, d, lockfile)
                   /\ proc' = [proc EXCEPT ![p] =
                          [s EXCEPT !.decrypt = res, !.pc = NextPhase("decrypt")]]
                   /\ UNCHANGED loopBound

\* the step for every outcome of open and of cryptsetup, and for the
\* results of luks_create_lockfile in made; a status that is not read is 0
OpenDecryptIn(p, made) ==
    /\ proc[p].pc = "decrypt"
    /\ \E opened \in BOOLEAN, isLuks \in ToolStatus, luksOpen \in ToolStatus,
          lockfile \in made :
           /\ ~opened => isLuks = 0
           /\ (isLuks # 0 \/ proc[p].device \in luksMap \/ ~opened) => luksOpen = 0
           /\ luksOpen # 0 => lockfile
           /\ OpenDecryptWith(p, opened, isLuks, luksOpen, lockfile)

OpenDecrypt(p) == OpenDecryptIn(p, {TRUE})

(* ---- lock_dir / unlock_dir, src/src/utils.c ---- *)

\* lockf(f, F_TLOCK, 0): granted unless another process owns the lock
lockf_TLOCK(p, i) == lockf[i] \in {0, p}

\* inodes a path, an open file or a lock still refers to
UsedInodes ==
    {sentinel[m] : m \in Mntpts} \cup {proc[q].f : q \in Procs}
        \cup {proc[q].uf : q \in Procs} \cup {i \in Inodes : lockf[i] # 0}
\* the inode of a newly created file
NewInode == CHOOSE i \in Inodes \ UsedInodes : \A j \in Inodes \ UsedInodes : i <= j

\* lock_dir: creat(lockfile, 0600)
LockCreat(p) ==
    LET r == [proc[p] EXCEPT !.phases = Append(@, "LockMountpoint")]
        m == r.mntpt
    IN
    /\ r.pc = "lock_creat"
    /\ UNCHANGED <<runs, mounted, dir, lockf, lockdir, lockfiles,
                   alive, image, call, probe, opt, cred, mt, sp, nm, luksMap, luksLock>>
    \* the path names a file: it is opened; otherwise a new file is made
    /\ sentinel' = IF sentinel[m] = 0 THEN [sentinel EXCEPT ![m] = NewInode]
                   ELSE sentinel
    /\ proc' = [proc EXCEPT ![p] = [r EXCEPT !.f = sentinel'[m], !.pc = "lock_try"]]
    /\ UNCHANGED loopBound

\* faulty variant: the result of lock_dir is ignored
OnLockFailure_ignored(r) == [r EXCEPT !.pc = "fsck"]

\* main() when lock_dir fails: the loop device is released, E_LOCKED
OnLockFailure(r) == Exited(Dissociated(r), E_LOCKED)

\* lock_dir: lockf(f, F_TLOCK, 0), which never waits
LockTry(p) ==
    LET r == proc[p] IN
    /\ r.pc = "lock_try"
    /\ UNCHANGED <<runs, mounted, dir, sentinel, lockdir, lockfiles,
                   alive, image, call, probe, opt, cred, mt, sp, nm, luksMap, luksLock>>
    /\ IF lockf_TLOCK(p, r.f)
       THEN /\ lockf' = [lockf EXCEPT ![r.f] = p]
            /\ proc' = [proc EXCEPT ![p] = [r EXCEPT !.inLock = TRUE, !.pc = NextPhase("lock_try")]]
            /\ UNCHANGED loopBound
       ELSE /\ proc' = [proc EXCEPT ![p] = OnLockFailure(r)]
            /\ loopBound' = LoopAfterDissociate(r)
            /\ lockf' = ExitLocks(p)

(* ---- main(), between lock_dir and unlock_dir ---- *)

\* do_fsck, when -F was given and allowed
\* a do_fsck that takes every exit status of fsck for a success
do_fsck_lenient(status) == 0

\* do_fsck: the exit status of fsck above 1 is an error, 0 and 1 are fine
do_fsck(status) == IF status > 1 THEN -1 ELSE 0

\* exit statuses of fsck: clean, errors corrected, errors left, and the
\* status of the child that could not execute fsck
FsckStatus == {0, 1, 4, E_INTERNAL}

\* the fsck step of main() for a given -F option and exit status of fsck
FsckWith(p, run_fsck, status) ==
    LET r == proc[p] IN
    /\ UNCHANGED <<runs, env>>
    /\ IF ~run_fsck
       THEN proc' = [proc EXCEPT ![p] = [r EXCEPT !.result = 0, !.pc = NextPhase("fsck")]]
       ELSE proc' = [proc EXCEPT ![p] =
              [Spawned(r, "fsck") EXCEPT
                   !.phases = Append(@, "Fsck"),
                   !.result = do_fsck(status),
                   \* Only mount if fsck went fine
                   !.pc = IF do_fsck(status) = 0 THEN NextPhase("fsck")
                          ELSE NextPhase("mount")]]

Fsck(p) ==
    /\ proc[p].pc = "fsck"
    /\ \E run_fsck \in BOOLEAN, status \in FsckStatus :
          /\ ~run_fsck => status = 0
          /\ FsckWith(p, run_fsck, status)

\* do_mount / do_mount_auto
Mount(p) ==
    LET r == [proc[p] EXCEPT !.phases = Append(@, "Mount")]
        m == r.mntpt
    IN
    /\ r.pc = "mount"
    /\ UNCHANGED <<runs, dir, sentinel, lockdir, lockfiles, alive, image, call, probe, opt, cred, mt, sp, nm,
                   loopBound, luksMap, luksLock>>
    /\ \/ \* -t names no supported file system, or a mask is above 0777
          /\ proc' = [proc EXCEPT ![p] = [r EXCEPT !.result = -1, !.pc = NextPhase("mount")]]
          /\ UNCHANGED <<mounted, lockf>>
       \/ \* a mask is not a number: parse_unsigned exits with E_ARGS
          /\ proc' = [proc EXCEPT ![p] = Exited(r, E_ARGS)]
          /\ lockf' = ExitLocks(p)
          /\ UNCHANGED mounted
       \/ \* mount fails (for every file system tried)
          /\ proc' = [proc EXCEPT ![p] =
                 [Spawned(r, "mount") EXCEPT !.result = 32, !.pc = NextPhase("mount")]]
          /\ UNCHANGED <<mounted, lockf>>
       \/ \* mount succeeds
          /\ dir[m] # "absent"
          /\ mounted' = [mounted EXCEPT ![m] = decrypted_device(r)]
          /\ proc' = [proc EXCEPT ![p] =
                 [Spawned(r, "mount") EXCEPT !.result = 0, !.pc = NextPhase("mount")]]
          /\ UNCHANGED lockf

\* unlock_dir: open(lockfile, O_WRONLY)
UnlockOpen(p) ==
    LET r == [proc[p] EXCEPT !.inLock = FALSE]
        m == r.mntpt
    IN
    /\ r.pc = "unlock_open"
    /\ UNCHANGED <<runs, env>>
    /\ IF sentinel[m] = 0
       THEN \* ENOENT: unlock_dir returns
            proc' = [proc EXCEPT ![p] = [r EXCEPT !.pc = "finish"]]
       ELSE proc' = [proc EXCEPT ![p] = [r EXCEPT !.uf = sentinel[m], !.pc = "unlock_ulock"]]

\* unlock_dir: lockf(f, F_ULOCK, 0)
UnlockUlock(p) ==
    LET r == proc[p] IN
    /\ r.pc = "unlock_ulock"
    /\ lockf' = IF lockf[r.uf] = p THEN [lockf EXCEPT ![r.uf] = 0] ELSE lockf
    /\ proc' = [proc EXCEPT ![p] = [r EXCEPT !.pc = "unlock_unlink"]]
    /\ UNCHANGED <<runs, mounted, dir, sentinel, lockdir, lockfiles,
                   alive, image, call, probe, opt, cred, mt, sp, nm, loopBound, luksMap, luksLock>>

\* unlock_dir: unlink(lockfile)
UnlockUnlink(p) ==
    LET r == proc[p] IN
    /\ r.pc = "unlock_unlink"
    /\ sentinel' = [sentinel EXCEPT ![r.mntpt] = 0]
    /\ proc' = [proc EXCEPT ![p] = [r EXCEPT !.pc = "finish"]]
    /\ UNCHANGED <<runs, mounted, dir, lockf, lockdir, lockfiles,
                   alive, image, call, probe, opt, cred, mt, sp, nm, loopBound, luksMap, luksLock>>

\* the exit status after the unwind of a failed mount
UnwindCode(m) ==
    IF remove_failed(m, mntpt_mounted(m)) THEN EXIT_FAILURE ELSE E_EXECMOUNT

\* faulty variant: luksClose is run whether or not there is a lockfile
luks_release_always(force, haslock, luksClose) ==
    IF luksClose # 0 THEN "exit" ELSE "closed"

\* luks_release(device, force): what it does, for the lockfile
\* luks_has_lockfile finds and the exit status of cryptsetup luksClose
luks_release(force, haslock, luksClose) ==
    IF force \/ haslock
    THEN IF luksClose # 0 THEN "exit" ELSE "closed"
    ELSE "noop"

\* the raw device whose mapped device dev is; NoDev if dev is no mapped device
RawOf(dev) ==
    IF \E raw \in RawDevs : Mapped(raw) = dev
    THEN CHOOSE raw \in RawDevs : Mapped(raw) = dev
    ELSE NoDev

\* main() after unlock_dir: success, or the unwind of a failed mount, when
\* cryptsetup answers luksClose with this exit status
FinishWith(p, luksClose) ==
    LET r == proc[p]
        d == r.device
        m == r.mntpt
        rel == IF r.decrypt = "DECRYPT_OK"
               THEN luks_release(FALSE, d \in luksLock, luksClose)
               ELSE "noop"
    IN
    /\ r.pc = "finish"
    /\ lockf' = ExitLocks(p)
    /\ UNCHANGED <<runs, mounted, sentinel, lockdir, lockfiles, alive, image, call, probe, opt, cred, mt, sp, nm>>
    /\ IF r.result = 0
       THEN /\ proc' = [proc EXCEPT ![p] = Exited(r, EXIT_SUCCESS)]
            /\ UNCHANGED <<dir, loopBound, luksMap, luksLock>>
       ELSE CASE rel = "noop" ->
                   \* loopdev_dissociate; remove_pmount_mntpt
                   /\ dir' = remove_pmount_mntpt(m, mntpt_mounted(m))
                   /\ loopBound' = LoopAfterDissociate(r)
                   /\ proc' = [proc EXCEPT ![p] = Exited(Dissociated(r), UnwindCode(m))]
                   /\ UNCHANGED <<luksMap, luksLock>>
              [] rel = "closed" ->
                   \* luksClose succeeds, on a mapping that is there, and
                   \* luks_remove_lockfile
                   /\ d \in luksMap
                   /\ luksMap' = luksMap \ {d}
                   /\ luksLock' = luksLock \ {d}
                   /\ dir' = remove_pmount_mntpt(m, mntpt_mounted(m))
                   /\ loopBound' = LoopAfterDissociate(r)
                   /\ proc' = [proc EXCEPT ![p] =
                          Exited(Dissociated(Spawned(r, "luksClose")), UnwindCode(m))]
              [] rel = "exit" ->
                   /\ proc' = [proc EXCEPT ![p] =
                          Exited(Spawned(r, "luksClose"), E_INTERNAL)]
                   /\ UNCHANGED <<dir, loopBound, luksMap, luksLock>>

\* a status that is not read is 0
Finish(p) ==
    /\ proc[p].pc = "finish"
    /\ \E luksClose \in ToolStatus :
           /\ luksClose # 2
           /\ (proc[p].result = 0 \/ proc[p].decrypt # "DECRYPT_OK"
                   \/ proc[p].device \notin luksLock) => luksClose = 0
           /\ FinishWith(p, luksClose)

(* ---- pmount --lock / --unlock ---- *)

\* main() case LOCK: device_valid, parse_unsigned(arg2, E_PID), and do_lock
\* up to assert_dir(lockdirpath, 0)
DoLockDir(p) ==
    LET r == proc[p] IN
    /\ r.pc = "do_lock"
    /\ UNCHANGED <<runs, mounted, dir, sentinel, lockf, lockfiles,
                   alive, image, call, probe, opt, cred, mt, sp, nm, loopBound, luksMap, luksLock>>
    /\ \/ \* !device_valid(device): nothing is locked, exit status 0
          /\ ~r.facts.valid
          /\ proc' = [proc EXCEPT ![p] = Exited(r, EXIT_SUCCESS)]
          /\ UNCHANGED lockdir
       \/ \* the pid argument is not a number
          /\ r.facts.valid
          /\ proc' = [proc EXCEPT ![p] = Exited(r, E_PID)]
          /\ UNCHANGED lockdir
       \/ /\ r.facts.valid
          /\ lockdir' = [lockdir EXCEPT ![r.device] = TRUE]
          /\ proc' = [proc EXCEPT ![p] =
                 [r EXCEPT !.facts = NoFacts, !.pc = "do_lock_pid"]]

\* do_lock: pid_exists(pid), then open(lockfilepath, O_WRONLY | O_CREAT)
DoLockPid(p) ==
    LET r == proc[p]
        d == r.device
    IN
    /\ r.pc = "do_lock_pid"
    /\ UNCHANGED <<runs, mounted, dir, sentinel, lockf, lockdir,
                   alive, image, call, probe, opt, cred, mt, sp, nm, loopBound, luksMap, luksLock>>
    /\ IF pid_exists(alive, r.pid) /\ lockdir[d]
       THEN /\ lockfiles' = [lockfiles EXCEPT ![d] = @ \cup {r.pid}]
            /\ proc' = [proc EXCEPT ![p] = Exited(r, EXIT_SUCCESS)]
       ELSE \* no such process, or the directory was removed meanwhile
            /\ proc' = [proc EXCEPT ![p] = Exited(r, E_INTERNAL)]
            /\ UNCHANGED lockfiles

\* do_unlock(device, pid): the pid files it leaves
do_unlock_files(isdir, files, pid) ==
    IF isdir /\ pid # 0 THEN files \ {pid} ELSE files

\* main() case UNLOCK: device_valid, parse_unsigned(arg2, E_PID), do_unlock
DoUnlock(p) ==
    LET r == proc[p]
        d == r.device
    IN
    /\ r.pc = "do_unlock"
    /\ UNCHANGED <<runs, mounted, dir, sentinel, lockf, alive, image, call, probe, opt, cred, mt, sp, nm,
                   loopBound, luksMap, luksLock>>
    /\ \/ \* !device_valid(device)
          /\ ~r.facts.valid
          /\ proc' = [proc EXCEPT ![p] = Exited(r, EXIT_SUCCESS)]
          /\ UNCHANGED <<lockdir, lockfiles>>
       \/ \* the pid argument is not a number
          /\ r.facts.valid
          /\ proc' = [proc EXCEPT ![p] = Exited(r, E_PID)]
          /\ UNCHANGED <<lockdir, lockfiles>>
       \/ \* unlink the pid file (if the directory exists and pid is not
          \* 0), rmdir unless pid files remain
          /\ r.facts.valid
          /\ lockfiles' = [lockfiles EXCEPT ![d] = do_unlock_files(lockdir[d], @, r.pid)]
          /\ lockdir' = [lockdir EXCEPT ![d] = lockdir[d] /\ lockfiles'[d] # {}]
          /\ proc' = [proc EXCEPT ![p] = Exited(r, EXIT_SUCCESS)]

\* a process terminates whose pid, or whose process group, holds a device lock
Die(h) ==
    /\ h \in alive
    /\ \E d \in RawDevs : h \in lockfiles[d] \/ (0 - h) \in lockfiles[d]
    /\ alive' = alive \ {h}
    /\ UNCHANGED <<proc, runs, mounted, dir, sentinel, lockf, lockdir,
                   lockfiles, loopBound, luksMap, luksLock, image, call, probe, opt, cred, mt, sp, nm>>

(* ---- pumount, src/src/pumount.c ---- *)

\* the device pumount works on: the mapped device if it exists
UmountDevice(d) == IF d \in luksMap THEN Mapped(d) ELSE d
\* the mount point device_mounted(device, 1, mntpt) reports
MountpointOf(d) == CHOOSE m \in Mntpts : mounted[m] = d

\* a new invocation of pumount
PuStart(p) ==
    /\ FreeSlot(p)
    /\ runs < MaxRuns
    /\ runs' = runs + 1
    /\ proc' = [proc EXCEPT ![p] = [Idle EXCEPT !.mode = "UMOUNT", !.pc = "pu_policy"]]
    /\ UNCHANGED env

\* main() and umount_device up to check_umount_policy
PuPolicy(p) ==
    LET r == proc[p] IN
    /\ r.pc = "pu_policy"
    /\ UNCHANGED <<runs, env>>
    /\ \E raw \in RawDevs :
         LET d == UmountDevice(raw) IN
         \/ \* handled by /etc/fstab: do_umount_fstab, or nothing to do
            /\ raw = "sda1"
            /\ \E st \in {EXIT_SUCCESS, E_EXECUMOUNT} :
                 proc' = [proc EXCEPT ![p] =
                     Exited([r EXCEPT !.device = raw, !.execd = TRUE], st)]
         \/ \* not mounted, or mounted by another user
            proc' = [proc EXCEPT ![p] = Exited([r EXCEPT !.device = d], E_POLICY)]
         \/ /\ device_mounted(d)
            /\ proc' = [proc EXCEPT ![p] =
                   [r EXCEPT !.device = d, !.mntpt = MountpointOf(d), !.pc = "pu_umount"]]

\* umount_device: do_umount, luks_release(device, 1), remove_pmount_mntpt,
\* for an invocation with or without --luks-force, when umount and
\* cryptsetup luksClose end with these exit statuses
PuUmountWith(p, luks_force, umount, luksClose) ==
    LET r == proc[p]
        d == r.device
        m == r.mntpt
        u == Spawned(r, "umount")
        rel == luks_release(TRUE, RawOf(d) \in luksLock, luksClose)
    IN
    /\ r.pc = "pu_umount"
    /\ UNCHANGED <<runs, sentinel, lockf, lockdir, lockfiles, alive, image, call, probe, opt, cred, mt, sp, nm,
                   loopBound>>
    /\ IF umount # 0
       THEN /\ proc' = [proc EXCEPT ![p] = Exited(u, E_EXECUMOUNT)]
            /\ UNCHANGED <<mounted, dir, luksMap, luksLock>>
       ELSE /\ mounted[m] = d
            /\ mounted' = [mounted EXCEPT ![m] = NoDev]
            /\ CASE rel = "exit" ->
                     /\ proc' = [proc EXCEPT ![p] =
                            Exited(Spawned(u, "luksClose"), E_INTERNAL)]
                     /\ UNCHANGED <<dir, luksMap, luksLock>>
                 [] rel = "closed" ->
                     \* luksClose succeeds, on a mapping that is there
                     /\ RawOf(d) \in luksMap
                     /\ luksMap' = luksMap \ {RawOf(d)}
                     /\ luksLock' = luksLock \ {RawOf(d)}
                     /\ dir' = remove_pmount_mntpt(m, FALSE)
                     /\ proc' = [proc EXCEPT ![p] =
                            Exited(Spawned(u, "luksClose"), EXIT_SUCCESS)]
                 [] rel = "noop" ->
                     /\ dir' = remove_pmount_mntpt(m, FALSE)
                     /\ proc' = [proc EXCEPT ![p] = Exited(u, EXIT_SUCCESS)]
                     /\ UNCHANGED <<luksMap, luksLock>>

\* a status that is not read is 0
PuUmount(p) ==
    /\ proc[p].pc = "pu_umount"
    /\ \E luks_force \in BOOLEAN, umount \in ToolStatus, luksClose \in ToolStatus :
           /\ umount # 2 /\ luksClose # 2
           /\ umount # 0 => luksClose = 0
           /\ PuUmountWith(p, luks_force, umount, luksClose)

(* ---- the system ---- *)

Next ==
    \/ \E p \in Procs : Start(p)
    \/ \E p \in Procs : PuStart(p)
    \/ \E p \in Procs : Policy(p)
    \/ \E p \in Procs : OpenDecrypt(p)
    \/ \E p \in Procs : LockCreat(p)
    \/ \E p \in Procs : LockTry(p)
    \/ \E p \in Procs : Fsck(p)
    \/ \E p \in Procs : Mount(p)
    \/ \E p \in Procs : UnlockOpen(p)
    \/ \E p \in Procs : UnlockUlock(p)
    \/ \E p \in Procs : UnlockUnlink(p)
    \/ \E p \in Procs : Finish(p)
    \/ \E p \in Procs : DoLockDir(p)
    \/ \E p \in Procs : DoLockPid(p)
    \/ \E p \in Procs : DoUnlock(p)
    \/ \E p \in Procs : PuPolicy(p)
    \/ \E p \in Procs : PuUmount(p)
    \/ \E h \in Pids : Die(h)

Spec == Init /\ [][Next]_vars

(* ---- invocations that run one after another ---- *)

\* the state before the first invocation: as in Init, or with the device
\* mapped by cryptsetup luksOpen outside of pmount and the mapped device
\* mounted on the mount point for the user
SeqInit ==
    /\ proc = [p \in Procs |-> Idle]
    /\ runs = 0
    /\ dir \in [Mntpts -> {"absent", "plain"}]
    /\ sentinel = [m \in Mntpts |-> 0]
    /\ lockf = [i \in Inodes |-> 0]
    /\ lockdir = [d \in RawDevs |-> FALSE]
    /\ lockfiles = [d \in RawDevs |-> {}]
    /\ alive = Pids
    /\ loopBound = FALSE
    /\ luksLock = {}
    /\ image = NoImage
    /\ call = NoCall
    /\ probe = NoProbe
    /\ opt = NoOpt
    /\ cred = NoCred
    /\ mt = NoMt
    /\ sp = NoSp
    /\ nm = NoNm
    /\ \/ /\ luksMap = {}
          /\ mounted = [m \in Mntpts |-> NoDev]
       \/ /\ luksMap = {"sda1"}
          /\ mounted = [m \in Mntpts |-> Mapped("sda1")]
          /\ \A m \in Mntpts : dir[m] = "plain"

\* every invocation runs in slot 1, with every pid argument, and with a
\* luks lockfile that can or cannot be created
SeqNext ==
    \/ StartIn(1, PidArgs)
    \/ PuStart(1)
    \/ Policy(1)
    \/ OpenDecryptIn(1, BOOLEAN)
    \/ LockCreat(1)
    \/ LockTry(1)
    \/ Fsck(1)
    \/ Mount(1)
    \/ UnlockOpen(1)
    \/ UnlockUlock(1)
    \/ UnlockUnlink(1)
    \/ Finish(1)
    \/ DoLockDir(1)
    \/ DoLockPid(1)
    \/ DoUnlock(1)
    \/ PuPolicy(1)
    \/ PuUmount(1)
    \/ \E h \in Pids : Die(h)

SeqSpec == SeqInit /\ [][SeqNext]_vars

(* ---- properties ---- *)

\* the step of slot p ends a running invocation
ExitStep(p) == proc[p].pc \notin {"idle", "done"} /\ proc'[p].pc = "done"
\* every external program an invocation has run
Tools(r) == r.toolsInLock \cup r.toolsOutLock
\* a mount-mode invocation that main() did not hand over to mount via fstab
MountRun(r) == r.mode = "MOUNT" /\ ~r.execd
\* the lock directory of d holds the pid file of a live process
HeldLive(d) == lockdir[d] /\ lockfiles[d] \cap alive # {}

\* Mount admission for the invocation r about to run its policy check
MountAdmission(r) ==
    /\ r.facts.valid
    /\ ~device_mounted(r.device)
    /\ (r.doing_loop_mount \/ r.facts.allowlisted \/ r.facts.removable)
    /\ ~HeldLive(r.device)
    /\ ~r.facts.fstab_mntpt /\ ~r.facts.not_empty
    /\ mounted[r.mntpt] = NoDev

\* C1: in mount mode for a device not handled by fstab, the policy check
\* lets the invocation go on exactly when valid, not mounted, (loop mount or
\* allowlisted or removable), not locked, mount point valid and mount point
\* not mounted all hold; otherwise it exits with E_POLICY and has run neither
\* mount nor fsck; and mount or fsck are only ever run by an invocation
\* whose policy check admitted it.
C1_PolicyGatesMount ==
    [][\A p \in Procs :
         LET r == proc[p]
             r2 == proc'[p]
         IN
         /\ (r.pc = "policy" /\ r2.pc # "policy" /\ r2.code # E_MNTPT) =>
                IF MountAdmission(r)
                THEN r2.pc # "done" /\ r2.admitted
                ELSE r2.pc = "done" /\ r2.code = E_POLICY
                     /\ {"mount", "fsck"} \cap Tools(r2) = {}
         /\ (MountRun(r2) /\ r2.pc # "done" /\ {"mount", "fsck"} \cap Tools(r2) # {})
                => r2.admitted]_vars

\* C1 witness: an admitted invocation has run mount while another mount
\* invocation on the block device was denied
C1_Witness ==
    \E p, q \in Procs :
        /\ proc[p].admitted /\ "mount" \in proc[p].toolsInLock
        /\ proc[q].pc = "done" /\ proc[q].mode = "MOUNT" /\ proc[q].device = "sda1"
        /\ proc[q].code = E_POLICY /\ Tools(proc[q]) = {}

\* C2: a mount-mode invocation that exits with a non-zero code has
\* dissociated the loop device it bound and closed the LUKS mapping it opened.
C2_ReleasedOnFailure ==
    [][\A p \in Procs :
         (ExitStep(p) /\ proc[p].mode = "MOUNT" /\ proc'[p].code # 0) =>
             /\ proc[p].doing_loop_mount => ~loopBound'
             /\ proc[p].decrypt = "DECRYPT_OK" => proc[p].device \notin luksMap']_vars

\* C3: when an invocation that runs alone exits with a non-zero code, a
\* mount point directory it created no longer exists.
C3_CreatedMntptRemoved ==
    [][\A p \in Procs :
         (/\ ExitStep(p) /\ proc'[p].code # 0 /\ proc[p].created
          /\ \A q \in Procs \ {p} : proc[q].pc \in {"idle", "done"})
             => dir'[proc[p].mntpt] = "absent"]_vars

\* C4: at most one invocation is between a successful lock_dir(m) and its
\* unlock_dir(m) for the same mount point m.
C4_MutualExclusion ==
    \A p, q \in Procs :
        (p # q /\ proc[p].inLock /\ proc[q].inLock) => proc[p].mntpt # proc[q].mntpt

\* C5: an invocation whose lock_dir tries the lock while another invocation
\* is between lock_dir and unlock_dir of the same mount point fails at once:
\* it exits with E_LOCKED.
C5_FailFast ==
    [][\A p \in Procs :
         (/\ proc[p].pc = "lock_try" /\ proc'[p] # proc[p]
          /\ \E q \in Procs \ {p} : proc[q].inLock /\ proc[q].mntpt = proc[p].mntpt)
             => proc'[p].pc = "done" /\ proc'[p].code = E_LOCKED]_vars

\* the mount point directory m is created in this step
CreatedNow(m) == dir[m] = "absent" /\ dir'[m] # "absent"

\* C6 as stated: the mount point directory is created, and fsck and mount
\* are run, only by an invocation that holds the mount point lock.
C6_AllUnderLock ==
    [][/\ \A m \in Mntpts :
            CreatedNow(m) => \E p \in Procs : proc[p].inLock /\ proc[p].mntpt = m
       /\ \A p \in Procs :
            MountRun(proc'[p]) => {"fsck", "mount"} \cap proc'[p].toolsOutLock = {}]_vars

\* C6 amended: fsck and every mount attempt are run only between lock_dir
\* and unlock_dir; the mount point directory is created earlier, by the
\* policy check of an invocation that does not hold the lock yet.
C6_FsckMountUnderLock ==
    [][/\ \A m \in Mntpts :
            CreatedNow(m) =>
                \E p \in Procs : /\ proc[p].pc = "policy" /\ proc[p].mntpt = m
                                 /\ ~proc[p].inLock /\ ~proc'[p].inLock
                                 /\ proc'[p].created
       /\ \A p \in Procs :
            MountRun(proc'[p]) => {"fsck", "mount"} \cap proc'[p].toolsOutLock = {}]_vars

\* C6 witness: an invocation created its mount point and has then run fsck
\* and mount under the lock
C6_Witness ==
    \E p \in Procs :
        proc[p].created /\ {"fsck", "mount"} \subseteq proc[p].toolsInLock

\* C7: an invocation never ends between lock_dir and unlock_dir.
C7_NoExitInLock ==
    [][\A p \in Procs : ExitStep(p) => ~proc[p].inLock]_vars

\* the phases in the order the design lists them, and in the order of main()
DesignOrder ==
    <<"Resolve", "LoopSetup", "Decrypt", "PolicyCheck", "LockMountpoint", "Fsck", "Mount">>
MainOrder ==
    <<"Resolve", "LoopSetup", "PolicyCheck", "Decrypt", "LockMountpoint", "Fsck", "Mount">>
Rank(order) ==
    [x \in {order[i] : i \in 1 .. Len(order)} |->
        CHOOSE i \in 1 .. Len(order) : order[i] = x]
DesignRank == Rank(DesignOrder)
MainRank == Rank(MainOrder)
\* each phase of s comes later in the order than the phase before it
InOrder(s, rank) ==
    \A i \in 1 .. Len(s) : i > 1 => rank[s[i - 1]] < rank[s[i]]

\* C8 as stated: the phases of a mount run occur in the order Resolve,
\* LoopSetup, Decrypt, PolicyCheck, LockMountpoint, Fsck, Mount.
C8_DesignOrder == \A p \in Procs : InOrder(proc[p].phases, DesignRank)

\* C8 amended: the phases of a mount run occur in the order Resolve,
\* LoopSetup, PolicyCheck, Decrypt, LockMountpoint, Fsck, Mount: the policy
\* check comes before luks_decrypt.
C8_MainOrder == \A p \in Procs : InOrder(proc[p].phases, MainRank)

\* C8 witness: a run that went through all seven phases
C8_Witness == \E p \in Procs : proc[p].phases = MainOrder

\* C9 as stated: under the mount point lock nothing but mount or umount is
\* run, and mount (pmount) and umount (pumount) are run only under it.
C9_OnlyMountUnderLock ==
    \A p \in Procs :
        /\ proc[p].toolsInLock \subseteq {"mount", "umount"}
        /\ ~proc[p].execd => {"mount", "umount"} \cap proc[p].toolsOutLock = {}

\* C9 amended: under the mount point lock only fsck and mount are run; every
\* mount call of a pmount run that is not delegated to fstab happens under
\* the lock; pumount takes no mount point lock and runs umount without it.
C9_FsckAndMountUnderLock ==
    \A p \in Procs :
        /\ proc[p].toolsInLock \subseteq {"fsck", "mount"}
        /\ ~proc[p].execd => "mount" \notin proc[p].toolsOutLock
        /\ proc[p].mode = "UMOUNT" => ~proc[p].inLock /\ proc[p].toolsInLock = {}
        /\ "umount" \in Tools(proc[p]) => proc[p].mode = "UMOUNT"

\* C9 witness: pmount has run fsck and mount under the lock, and pumount has
\* run umount without a lock
C9_Witness ==
    \E p, q \in Procs :
        /\ proc[p].toolsInLock = {"fsck", "mount"}
        /\ proc[q].mode = "UMOUNT" /\ "umount" \in proc[q].toolsOutLock

\* C10: a mount attempt that starts on a device whose lock directory holds
\* the pid file of a live process, and that ends at once, is denied with
\* E_POLICY; and so is one whose run leaves the policy step in that situation.
C10_LockedDenied ==
    [][\A p \in Procs :
         LET r == proc[p]
             r2 == proc'[p]
         IN
         /\ (/\ runs' # runs /\ r2 # r /\ r2.mode = "MOUNT" /\ r2.pc = "done"
             /\ r2.device \in RawDevs /\ HeldLive(r2.device))
                => r2.code = E_POLICY
         /\ (r.pc = "policy" /\ r2.pc # "policy" /\ HeldLive(r.device))
                => r2.pc = "done" /\ r2.code = E_POLICY]_vars

\* the step of invocation p in which main() calls clean_lock_dir(device):
\* the policy step, unless the label was refused before
CleanStep(p) ==
    /\ proc[p].pc = "policy"
    /\ proc'[p] # proc[p]
    /\ ~(proc'[p].pc = "done" /\ proc'[p].code = E_MNTPT)

\* C11: when pmount calls clean_lock_dir(device) on an existing lock
\* directory, exactly the pid files whose pid does not exist are removed and
\* the directory is removed iff it is empty then; so with no existing holder
\* the device is not locked for the policy check that follows, and with an
\* existing holder it stays locked and the mount is not admitted.
C11_StaleLocksCleaned ==
    [][\A p \in Procs :
         LET d == proc[p].device
             kept == {n \in lockfiles[d] : pid_exists(alive, n)}
         IN
         (CleanStep(p) /\ lockdir[d]) =>
            /\ lockfiles'[d] = kept
            /\ lockdir'[d] = (kept # {})
            /\ kept = {} => ~device_locked(lockdir', d)
            /\ kept # {} => device_locked(lockdir', d) /\ proc'[p].pc = "done"]_vars

\* C12: a step of do_lock(device, pid) for a pid that does not exist leaves
\* the lock directories, the pid files and so device_locked(device) as they
\* were, and the call fails.
C12_DeadPidNoLockState ==
    [][\A p \in Procs :
         LET r == proc[p] IN
         (/\ r.pc \in {"do_lock", "do_lock_pid"}
          /\ proc'[p] # r
          /\ ~pid_exists(alive, r.pid))
            => /\ lockdir' = lockdir
               /\ lockfiles' = lockfiles
               /\ device_locked(lockdir', r.device) = device_locked(lockdir, r.device)
               /\ r.pc = "do_lock_pid" => proc'[p].pc = "done" /\ proc'[p].code # 0]_vars

\* the step of invocation p in which main() calls do_unlock(device, pid)
UnlockCall(p) ==
    /\ proc[p].pc = "do_unlock"
    /\ proc[p].facts.valid
    /\ proc'[p] # proc[p]
    /\ proc'[p].code # E_PID

\* C13: do_unlock(device, pid), for every pid --lock accepts, succeeds and
\* leaves no pid file of that pid in the lock directory, and afterwards the
\* device is locked iff a pid file remains.
C13_UnlockRemoves ==
    [][\A p \in Procs :
         LET r == proc[p]
             d == r.device
         IN
         UnlockCall(p) =>
            /\ proc'[p].code = EXIT_SUCCESS
            /\ r.pid \notin lockfiles'[d]
            /\ device_locked(lockdir', d) = (lockfiles'[d] # {})]_vars

\* C14: the decrypt step of pmount, when open(device) succeeded: a failing
\* isLuks probe gives DECRYPT_NOTENCRYPTED, the device itself is the device
\* to mount and luksOpen is not run; when the mapped device exists luksOpen
\* is not run and pmount exits with E_POLICY; otherwise luksOpen is run, and
\* status 0 gives DECRYPT_OK with the mapped device, status 1 ends pmount
\* with E_POLICY and any other status with E_INTERNAL.
C14_DecryptOutcomes ==
    [][\A p \in Procs :
         (proc[p].pc = "decrypt" /\ proc'[p] # proc[p]) =>
         \A isLuks \in ToolStatus, luksOpen \in ToolStatus, lockfile \in BOOLEAN :
         LET r == proc[p]
             r2 == proc'[p]
             d == r.device
             exists == d \in luksMap
         IN
         OpenDecryptWith(p, TRUE, isLuks, luksOpen, lockfile) =>
            /\ isLuks # 0 =>
                 /\ r2.pc # "done" /\ r2.decrypt = "DECRYPT_NOTENCRYPTED"
                 /\ decrypted_device(r2) = d
                 /\ "luksOpen" \notin Tools(r2) /\ luksMap' = luksMap
            /\ (isLuks = 0 /\ exists) =>
                 /\ r2.pc = "done" /\ r2.code = E_POLICY
                 /\ "luksOpen" \notin Tools(r2) /\ luksMap' = luksMap
            /\ (isLuks = 0 /\ ~exists) =>
                 /\ "luksOpen" \in Tools(r2)
                 /\ luksOpen = 0 =>
                      /\ r2.pc # "done" /\ r2.decrypt = "DECRYPT_OK"
                      /\ decrypted_device(r2) = Mapped(d)
                 /\ luksOpen = 1 => r2.pc = "done" /\ r2.code = E_POLICY
                 /\ luksOpen \notin {0, 1} => r2.pc = "done" /\ r2.code = E_INTERNAL]_vars

\* an invocation is refused on a device without luksOpen being run, after
\* an earlier one has opened the mapping of the device, which is still there
C14_Witness ==
    \E p \in Procs :
        /\ proc[p].pc = "done" /\ proc[p].code = E_POLICY
        /\ "cryptsetup" \in Tools(proc[p]) /\ "luksOpen" \notin Tools(proc[p])
        /\ proc[p].device \in luksMap \cap luksLock

\* C15: luks_release(device, force) runs cryptsetup luksClose iff force is
\* set or the ownership lockfile exists, and when luksClose succeeds the
\* mapping and the lockfile are gone; with force = 0 (the unwind of pmount)
\* and no lockfile nothing is spawned and the mapping and the lockfiles are
\* unchanged; with force = 1 (pumount) luksClose is run in every case.
C15_ReleaseFrame ==
    [][\A p \in Procs :
         LET r == proc[p]
             r2 == proc'[p]
             d == r.device
         IN
         /\ (r.pc = "finish" /\ r2 # r /\ r.result # 0 /\ r.decrypt = "DECRYPT_OK") =>
              \A luksClose \in ToolStatus :
                 FinishWith(p, luksClose) =>
                    /\ d \notin luksLock =>
                         /\ "luksClose" \notin Tools(r2)
                         /\ luksMap' = luksMap /\ luksLock' = luksLock
                    /\ d \in luksLock =>
                         /\ "luksClose" \in Tools(r2)
                         /\ luksClose = 0 => d \notin luksMap' /\ d \notin luksLock'
                         /\ luksClose # 0 => r2.code = E_INTERNAL /\ luksLock' = luksLock
         /\ (r.pc = "pu_umount" /\ r2 # r) =>
              \A luks_force \in BOOLEAN, luksClose \in ToolStatus :
                 PuUmountWith(p, luks_force, 0, luksClose) =>
                    /\ "luksClose" \in Tools(r2)
                    /\ luksClose = 0 => RawOf(d) \notin luksMap' /\ RawOf(d) \notin luksLock'
                    /\ luksClose # 0 => r2.code = E_INTERNAL /\ luksLock' = luksLock]_vars

\* a pmount that opened the mapping itself has unwound a failed mount and
\* left the mapping, which has no lockfile, as it was
C15_Witness ==
    \E p \in Procs :
        /\ proc[p].pc = "done" /\ proc[p].code \in {E_EXECMOUNT, EXIT_FAILURE}
        /\ "luksOpen" \in Tools(proc[p]) /\ "luksClose" \notin Tools(proc[p])
        /\ proc[p].device \in luksMap \ luksLock

C17_CloseOnlyOwned ==
    [][\A p \in Procs :
         LET raw == RawOf(proc[p].device) IN
         (proc[p].pc = "pu_umount" /\ proc'[p] # proc[p]) =>
            \A umount \in ToolStatus, luksClose \in ToolStatus :
               PuUmountWith(p, FALSE, umount, luksClose) =>
                  ((raw \in luksMap /\ raw \notin luksMap') => raw \in luksLock)]_vars

(* ---- loop.c: loopdev_associate and loopdev_dissociate ---- *)

\* Two files can stand behind the image path: the path is in a directory of
\* the caller, who can make it name either of them, or nothing, at any time.
Files == {1, 2}

\* the mark of a loop device that somebody else has bound
OtherUse == 3

\* the loop devices of the system; loop_devices of the configuration file
\* lists two of them, with an empty entry in between
LoopDevs == {"loop0", "loop1", "loop9"}
conffile_loop_devices == <<"loop0", "", "loop1">>
Listed == {conffile_loop_devices[i] : i \in DOMAIN conffile_loop_devices} \ {""}

getuid == "user"
StatBuf == [st_dev : {1, 2}, st_mode : SUBSET {"S_IRUSR", "S_IWUSR"},
            st_uid : {"user", "other"}]

\* the limit of the while loop of loopdev_dissociate
MaxTries == 10
\* the cap of the model on the losetup -d runs of one call
MaxAttempts == 12

\* what stat(source) fills in: the attributes of the file the path names now
stat(img) == IF img.source = NoFile THEN NoStat ELSE img.attrs[img.source]

\* the test of loopdev_associate on the file it has stat'ed
owner_rw(st) ==
    /\ st.st_uid = getuid
    /\ "S_IRUSR" \in st.st_mode
    /\ "S_IWUSR" \in st.st_mode

\* the comparison after losetup: st_dev (twice), st_mode and st_uid
file_changed(before, after) ==
    \/ after.st_dev # before.st_dev
    \/ after.st_dev # before.st_dev
    \/ after.st_mode # before.st_mode
    \/ after.st_uid # before.st_uid

\* the walk of loopdev_find_unused over the list: the first non-empty entry
\* for which losetup <device> answers 1, not configured
RECURSIVE first_unused(_, _, _)
first_unused(devices, i, table) ==
    IF i > Len(devices) THEN "end"
    ELSE IF devices[i] # "" /\ table[devices[i]] = NoFile THEN devices[i]
    ELSE first_unused(devices, i + 1, table)

\* The values loopdev_find_unused can return. The function has no return
\* statement after its loop: when every listed device is in use the caller
\* reads a value that was never set, a null pointer or a pointer to any
\* string, the name of a listed or of an unlisted device included.
loopdev_find_unused(table) ==
    LET d == first_unused(conffile_loop_devices, 1, table)
    IN  IF d = "end" THEN {"NULL"} \cup LoopDevs ELSE {d}

\* what no function of loop.c reads or writes
loop_frame == <<main_vars, probe, opt, cred, mt, sp, nm>>

LoopInit ==
    /\ proc = [p \in Procs |-> Idle]
    /\ runs = 0
    /\ mounted = [m \in Mntpts |-> NoDev]
    /\ dir = [m \in Mntpts |-> "absent"]
    /\ sentinel = [m \in Mntpts |-> 0]
    /\ lockf = [i \in Inodes |-> 0]
    /\ lockdir = [d \in RawDevs |-> FALSE]
    /\ lockfiles = [d \in RawDevs |-> {}]
    /\ alive = Pids
    /\ loopBound = FALSE
    /\ luksMap = {}
    /\ luksLock = {}
    /\ \E attrs \in [Files -> StatBuf], table \in [LoopDevs -> {NoFile, OtherUse}] :
          /\ table["loop9"] = NoFile
          /\ image = [source |-> 1, attrs |-> attrs, table |-> table]
    /\ call = NoCall
    /\ probe = NoProbe
    /\ opt = NoOpt
    /\ cred = NoCred
    /\ mt = NoMt
    /\ sp = NoSp
    /\ nm = NoNm

\* main() calls loopdev_associate, which stats the source and tests its
\* owner and its owner's read and write permission
AssocStat ==
    /\ call.pc = "none"
    /\ LET before == stat(image)
           c == [NoCall EXCEPT !.fn = "loopdev_associate", !.before = before,
                               !.verified = image.source]
       IN  call' = IF image.source # NoFile /\ owner_rw(before)
                   THEN [c EXCEPT !.pc = "find"]
                   ELSE [c EXCEPT !.pc = "returned", !.ret = -1]
    /\ UNCHANGED <<loop_frame, image>>

\* device = loopdev_find_unused(); a null device ends the call
AssocFind ==
    /\ call.pc = "find"
    /\ \E device \in loopdev_find_unused(image.table) :
          call' = IF device = "NULL"
                  THEN [call EXCEPT !.pc = "returned", !.ret = -1]
                  ELSE [call EXCEPT !.pc = "losetup", !.device = device]
    /\ UNCHANGED <<loop_frame, image>>

\* losetup <device> <source>: the path is handed over, and losetup binds the
\* device to the file the path names when it runs, if the device is free
AssocLosetup ==
    /\ call.pc = "losetup"
    /\ LET d == call.device
           ok == image.table[d] = NoFile /\ image.source # NoFile
       IN  /\ image' = IF ok THEN [image EXCEPT !.table[d] = image.source]
                       ELSE image
           /\ call' = IF ok
                      THEN [call EXCEPT !.pc = "check", !.passed = @ \cup {d},
                                        !.bound = image.source]
                      ELSE [call EXCEPT !.pc = "returned", !.passed = @ \cup {d},
                                        !.result = 1, !.ret = -1]
    /\ UNCHANGED loop_frame

\* the second stat and the comparison; a changed file is dissociated and the
\* call fails, an unchanged one gives the device back as the target
AssocCheck ==
    /\ call.pc = "check"
    /\ call' = IF image.source = NoFile \/ file_changed(call.before, stat(image))
               THEN [call EXCEPT !.pc = "dissociate", !.result = 1,
                                 !.nb_tries = 0, !.attempts = 0]
               ELSE [call EXCEPT !.pc = "returned", !.target = call.device,
                                 !.ret = 0]
    /\ UNCHANGED <<loop_frame, image>>

\* main() undoes the association on one of its error paths
MainDissociate ==
    /\ call.pc = "returned" /\ call.fn = "loopdev_associate" /\ call.ret = 0
    /\ call' = [call EXCEPT !.fn = "loopdev_dissociate", !.pc = "dissociate",
                            !.device = call.target, !.result = 1,
                            !.nb_tries = 0, !.attempts = 0]
    /\ UNCHANGED <<loop_frame, image>>

\* One turn of the while loop of loopdev_dissociate: losetup -d succeeds
\* only on a bound device, and fails while the device is busy. nb_tries is
\* not touched by the loop body.
DissociateTry ==
    /\ call.pc = "dissociate"
    /\ call.result # 0 /\ call.nb_tries < MaxTries
    /\ call.attempts < MaxAttempts
    /\ \E result \in {0, 1} :
          /\ result = 0 => image.table[call.device] # NoFile
          /\ image' = IF result = 0
                      THEN [image EXCEPT !.table[call.device] = NoFile]
                      ELSE image
          /\ call' = [call EXCEPT !.result = result, !.attempts = @ + 1]
    /\ UNCHANGED loop_frame

\* the loop is left: return result ? -1 : 0; loopdev_associate, when it is
\* the caller, returns -1 whatever the answer
DissociateReturn ==
    /\ call.pc = "dissociate"
    /\ ~(call.result # 0 /\ call.nb_tries < MaxTries)
    /\ call' = [call EXCEPT !.pc = "returned",
                            !.ret = IF call.fn = "loopdev_associate" THEN -1
                                    ELSE IF call.result # 0 THEN -1 ELSE 0]
    /\ UNCHANGED <<loop_frame, image>>

\* the caller makes the path name another file, or nothing, during the call
Swap ==
    /\ call.pc \in {"find", "losetup", "check"}
    /\ \E f \in (Files \cup {NoFile}) \ {image.source} :
          image' = [image EXCEPT !.source = f]
    /\ UNCHANGED <<loop_frame, call>>

\* somebody else binds a free loop device between the search and losetup
OtherLosetup ==
    /\ call.pc = "losetup"
    /\ \E d \in LoopDevs :
          /\ image.table[d] = NoFile
          /\ image' = [image EXCEPT !.table[d] = OtherUse]
    /\ UNCHANGED <<loop_frame, call>>

LoopNext ==
    \/ AssocStat
    \/ AssocFind
    \/ AssocLosetup
    \/ AssocCheck
    \/ MainDissociate
    \/ DissociateTry
    \/ DissociateReturn
    \/ Swap
    \/ OtherLosetup

LoopSpec == LoopInit /\ [][LoopNext]_vars

\* C18: loopdev_associate fails and binds nothing unless the source it has
\* stat'ed is owned by the real uid with owner read and write permission,
\* and every device it hands to losetup for binding is one of loop_devices.
C18_OwnedAndListed ==
    call.fn = "loopdev_associate" =>
        /\ (call.pc # "none" /\ ~owner_rw(call.before)) =>
              (call.pc = "returned" /\ call.ret = -1 /\ call.passed = {})
        /\ call.passed \subseteq Listed

\* C19: a call of loopdev_dissociate runs losetup -d at most ten times.
C19_AtMostTenTries ==
    call.pc = "dissociate" => call.attempts <= MaxTries

\* C20: when loopdev_associate returns success, the file it has bound the
\* loop device to is the file it verified.
C20_BoundIsVerified ==
    (call.fn = "loopdev_associate" /\ call.pc = "returned" /\ call.ret = 0)
        => call.bound = call.verified

\* C21: an invocation associates a loop device only in mount mode: the
\* step from the arguments to the settled device runs losetup, and binds
\* the loop device, for no --lock and no --unlock invocation.
C21_LoopOnlyInMount ==
    [][\A p \in Procs :
         (/\ proc[p].pc \in {"idle", "done"} /\ proc'[p] # proc[p]
          /\ ("losetup" \in Tools(proc'[p]) \/ (loopBound' /\ ~loopBound)))
            => proc'[p].mode = "MOUNT"]_vars

(* ---- pmount.c: do_mount and do_mount_auto, the filesystem probe ---- *)

\* supported_fs, cut down to six of its entries in their declared order:
\* two with a charset option, one without uid/gid and umask support, the two
\* that are flagged skip_autodetect, and the last entry of the table; the
\* option strings are lists of options, the formats are TRUE where the
\* entry has one
supported_fs ==
    << [fsname |-> "udf", options |-> <<"nosuid", "nodev", "user">>,
        support_ugid |-> TRUE, umask |-> "000", iocharset_format |-> TRUE,
        fdmask |-> FALSE, skip_autodetect |-> FALSE],
       [fsname |-> "vfat",
        options |-> <<"nosuid", "nodev", "user", "quiet", "shortname=mixed">>,
        support_ugid |-> TRUE, umask |-> "077", iocharset_format |-> TRUE,
        fdmask |-> TRUE, skip_autodetect |-> FALSE],
       [fsname |-> "ext4",
        options |-> <<"nodev", "noauto", "nosuid", "user", "errors=remount-ro">>,
        support_ugid |-> FALSE, umask |-> "NULL", iocharset_format |-> FALSE,
        fdmask |-> FALSE, skip_autodetect |-> FALSE],
       [fsname |-> "ntfs-fuse", options |-> <<"nosuid", "nodev", "user">>,
        support_ugid |-> TRUE, umask |-> "077", iocharset_format |-> FALSE,
        fdmask |-> TRUE, skip_autodetect |-> TRUE],
       [fsname |-> "ntfs-3g", options |-> <<"nosuid", "nodev", "user">>,
        support_ugid |-> TRUE, umask |-> "077", iocharset_format |-> FALSE,
        fdmask |-> TRUE, skip_autodetect |-> TRUE],
       [fsname |-> "ntfs", options |-> <<"nosuid", "nodev", "user">>,
        support_ugid |-> TRUE, umask |-> "077", iocharset_format |-> TRUE,
        fdmask |-> FALSE, skip_autodetect |-> FALSE] >>
FsNames == {supported_fs[i].fsname : i \in DOMAIN supported_fs}

\* get_fs_info: the entry of a name, 0 standing for NULL
get_fs_info(fsname) ==
    IF fsname \in FsNames
    THEN CHOOSE i \in DOMAIN supported_fs : supported_fs[i].fsname = fsname
    ELSE 0

\* The inputs of one probe: the -t argument ("NULL": none), whether -c gave a
\* charset, the type blkid reports ("off": built without blkid, "NULL": no
\* type found), whether the ntfs-3g mount helper is installed, the types
\* with which mount succeeds on the device, whether mount accepts the
\* charset option, whether a mask argument is out of range, and whether -e
\* was given.
ProbeInputs ==
    [use_fstype : {"NULL", "vfat", "bogus"}, iocharset : BOOLEAN,
     tp : {"off", "NULL", "vfat", "ntfs"}, ntfs_3g : BOOLEAN,
     ok : SUBSET FsNames, charset_ok : BOOLEAN, badmask : BOOLEAN,
     exec : BOOLEAN]

\* an assembly of the options that gives uid= and gid= to every filesystem
mount_options_ugid(in, fsname, iocharset) ==
    supported_fs[get_fs_info(fsname)].options \o <<"uid=", "gid=">>

\* the option string do_mount assembles for mount -o, as the list of its
\* options, each option with an argument cut after the '='; mount is run
\* without --async, --noatime, -r, -w and --utc
mount_options(in, fsname, iocharset) ==
    LET fs == supported_fs[get_fs_info(fsname)]
        exec_opt == IF in.exec THEN <<"exec">> ELSE <<"noexec">>
        ugid_opt == IF fs.support_ugid THEN <<"uid=", "gid=">> ELSE <<>>
        umask_opt == IF fs.umask # "NULL" THEN <<"umask=">> ELSE <<>>
        fdmask_opt == IF fs.umask # "NULL" /\ fs.fdmask
                      THEN <<"fmask=", "dmask=">> ELSE <<>>
        iocharset_opt == IF iocharset /\ fs.iocharset_format
                         THEN <<"iocharset=">>
                         ELSE IF fsname = "vfat" /\ fs.iocharset_format
                         THEN <<"iocharset=">> ELSE <<>>
    IN fs.options \o <<"sync", "atime">> \o exec_opt \o ugid_opt
          \o umask_opt \o fdmask_opt \o iocharset_opt

\* do_mount: -1 without running mount for an unknown type or a bad mask,
\* else the exit status of mount, 0 or 32
do_mount(in, fsname, iocharset) ==
    LET i == get_fs_info(fsname) IN
    IF i = 0 THEN -1
    ELSE IF in.badmask THEN -1
    ELSE IF /\ fsname \in in.ok
            /\ (iocharset /\ supported_fs[i].iocharset_format) => in.charset_ok
         THEN 0
         ELSE 32

\* one call of do_mount on record
Attempt(in, by, fsname, iocharset, nostderr) ==
    [by |-> by, fsname |-> fsname, iocharset |-> iocharset,
     nostderr |-> nostderr, result |-> do_mount(in, fsname, iocharset),
     options |-> IF do_mount(in, fsname, iocharset) = -1 THEN <<>>
                 ELSE mount_options(in, fsname, iocharset)]

\* the for loop never skips an entry
skip_fs_never(fs, ntfs_3g) == FALSE

\* the test of the for loop of do_mount_auto that passes over an entry
skip_fs(fs, ntfs_3g) ==
    fs.skip_autodetect /\ ~(fs.fsname = "ntfs-3g" /\ ntfs_3g)

\* what no step of the probe reads or writes
probe_frame == <<main_vars, image, call, opt, cred, mt, sp, nm>>

ProbeInit ==
    /\ proc = [p \in Procs |-> Idle]
    /\ runs = 0
    /\ mounted = [m \in Mntpts |-> NoDev]
    /\ dir = [m \in Mntpts |-> "absent"]
    /\ sentinel = [m \in Mntpts |-> 0]
    /\ lockf = [i \in Inodes |-> 0]
    /\ lockdir = [d \in RawDevs |-> FALSE]
    /\ lockfiles = [d \in RawDevs |-> {}]
    /\ alive = Pids
    /\ loopBound = FALSE
    /\ luksMap = {}
    /\ luksLock = {}
    /\ image = NoImage
    /\ call = NoCall
    /\ opt = NoOpt
    /\ cred = NoCred
    /\ mt = NoMt
    /\ sp = NoSp
    /\ nm = NoNm
    /\ \E in \in ProbeInputs :
          /\ in.use_fstype # "NULL" => in.tp = "off" /\ ~in.ntfs_3g
          /\ probe = [pc |-> "main", in |-> in, fs |-> 1, nostderr |-> TRUE,
                      result |-> 0, tried |-> <<>>]

\* main(): with -t, one call of do_mount with stderr left alone
ProbeExplicit ==
    /\ probe.pc = "main" /\ probe.in.use_fstype # "NULL"
    /\ LET a == Attempt(probe.in, "explicit", probe.in.use_fstype,
                        probe.in.iocharset, FALSE)
       IN  probe' = [probe EXCEPT !.pc = "returned", !.result = a.result,
                                  !.tried = Append(@, a)]
    /\ UNCHANGED probe_frame

\* do_mount_auto, the part that is compiled in with blkid: the type blkid
\* reports is tried first, ntfs as ntfs-3g when the helper is installed
AutoBlkid ==
    /\ probe.pc = "main" /\ probe.in.use_fstype = "NULL"
    /\ LET in == probe.in
           tp == IF in.tp = "ntfs" /\ in.ntfs_3g THEN "ntfs-3g" ELSE in.tp
           a == Attempt(in, "blkid", tp, in.iocharset, probe.nostderr)
       IN  probe' = IF in.tp \in {"off", "NULL"}
                    THEN [probe EXCEPT !.pc = "for", !.result = -1]
                    ELSE IF a.result = 0
                    THEN [probe EXCEPT !.pc = "returned", !.result = 0,
                                       !.tried = Append(@, a)]
                    ELSE [probe EXCEPT !.pc = "for", !.result = -1,
                                       !.tried = Append(@, a)]
    /\ UNCHANGED probe_frame

\* one turn of the for loop over the table
AutoFor ==
    /\ probe.pc = "for" /\ probe.fs <= Len(supported_fs)
    /\ LET in == probe.in
           fs == supported_fs[probe.fs]
           nostderr == IF probe.fs + 1 > Len(supported_fs) THEN FALSE
                       ELSE probe.nostderr
           first == Attempt(in, "table", fs.fsname, in.iocharset, nostderr)
           again == Attempt(in, "table", fs.fsname, FALSE, nostderr)
       IN  probe' =
             IF skip_fs(fs, in.ntfs_3g) THEN [probe EXCEPT !.fs = @ + 1]
             ELSE IF first.result = 0
             THEN [probe EXCEPT !.pc = "break", !.nostderr = nostderr,
                                !.result = 0, !.tried = Append(@, first)]
             ELSE IF ~in.iocharset
             THEN [probe EXCEPT !.pc = IF first.result <= 0 THEN "break" ELSE "for",
                                !.fs = IF first.result <= 0 THEN @ ELSE @ + 1,
                                !.nostderr = nostderr, !.result = first.result,
                                !.tried = Append(@, first)]
             ELSE [probe EXCEPT !.pc = IF again.result <= 0 THEN "break" ELSE "for",
                                !.fs = IF again.result <= 0 THEN @ ELSE @ + 1,
                                !.nostderr = nostderr, !.result = again.result,
                                !.tried = Append(Append(@, first), again)]
    /\ UNCHANGED probe_frame

\* the loop is left, by break or at the end of the table: return result
AutoReturn ==
    /\ \/ probe.pc = "break"
       \/ probe.pc = "for" /\ probe.fs > Len(supported_fs)
    /\ probe' = [probe EXCEPT !.pc = "returned"]
    /\ UNCHANGED probe_frame

ProbeNext ==
    \/ ProbeExplicit
    \/ AutoBlkid
    \/ AutoFor
    \/ AutoReturn

ProbeSpec == ProbeInit /\ [][ProbeNext]_vars

\* the place of a type in the table
FsIndex(fsname) == get_fs_info(fsname)
\* after the probe: one attempt with -t; no attempt follows one that
\* returned 0
ProbeStops ==
    LET t == probe.tried IN
    /\ probe.in.use_fstype # "NULL" => Len(t) = 1
    /\ \A k \in DOMAIN t : k < Len(t) => t[k].result # 0

Callers == {1000, 1001}
Groups == {100}
user_groups(uid) == IF uid = 1000 THEN Groups ELSE {}

\* a boolean configuration item: its default and its three lists
CiBool ==
    [def : BOOLEAN, allowed_users : SUBSET Callers,
     allowed_groups : SUBSET Groups, denied_users : SUBSET Callers]

\* conf_allow_fsck as the program starts with it: static, { .def = 0 }
conf_allow_fsck == [def |-> FALSE, allowed_users |-> {}, allowed_groups |-> {},
                    denied_users |-> {}]

\* ci_bool_allowed for the caller uid
ci_bool_allowed(c, uid) ==
    IF c.def THEN uid \notin c.denied_users
    ELSE uid \in c.allowed_users \/ c.allowed_groups \cap user_groups(uid) # {}

\* what /etc/pmount.conf can be: absent, not parseable, or the fsck item
ConfFiles ==
    {[kind |-> k, fsck |-> conf_allow_fsck] : k \in {"absent", "bad"}}
       \cup {[kind |-> "read", fsck |-> c] : c \in CiBool}

\* conffile_system_read on the configuration in memory: the new
\* configuration and the return value
conffile_system_read(conf, file) ==
    IF file.kind = "absent" THEN [conf |-> conf, ret |-> 0]
    ELSE IF file.kind = "bad" THEN [conf |-> conf, ret |-> -1]
    ELSE [conf |-> file.fsck, ret |-> 0]

\* what no step of OptSpec reads or writes
opt_frame == <<main_vars, image, call, probe, cred, mt, sp, nm>>

OptInit ==
    /\ proc = [p \in Procs |-> Idle]
    /\ runs = 0
    /\ mounted = [m \in Mntpts |-> NoDev]
    /\ dir = [m \in Mntpts |-> "absent"]
    /\ sentinel = [m \in Mntpts |-> 0]
    /\ lockf = [i \in Inodes |-> 0]
    /\ lockdir = [d \in RawDevs |-> FALSE]
    /\ lockfiles = [d \in RawDevs |-> {}]
    /\ alive = Pids
    /\ loopBound = FALSE
    /\ luksMap = {}
    /\ luksLock = {}
    /\ image = NoImage
    /\ call = NoCall
    /\ probe = NoProbe
    /\ cred = NoCred
    /\ mt = NoMt
    /\ sp = NoSp
    /\ nm = NoNm
    /\ \E uid \in Callers, F \in BOOLEAN, args \in BOOLEAN, file \in ConfFiles :
          opt = [pc |-> "getopt", uid |-> uid, F |-> F, args |-> args,
                 file |-> file, conf |-> conf_allow_fsck, run_fsck |-> FALSE,
                 code |-> 0]

\* the getopt_long loop: case 'F' asks conffile_allow_fsck() at once
OptGetopt ==
    /\ opt.pc = "getopt"
    /\ opt' = IF ~opt.F THEN [opt EXCEPT !.pc = "args"]
              ELSE IF ci_bool_allowed(opt.conf, opt.uid)
              THEN [opt EXCEPT !.pc = "args", !.run_fsck = TRUE]
              ELSE [opt EXCEPT !.pc = "exit", !.code = E_DISALLOWED]
    /\ UNCHANGED opt_frame

\* the check of the number of arguments
OptArgs ==
    /\ opt.pc = "args"
    /\ opt' = IF opt.args THEN [opt EXCEPT !.pc = "conffile"]
              ELSE [opt EXCEPT !.pc = "exit", !.code = E_ARGS]
    /\ UNCHANGED opt_frame

\* conffile_system_read(), after the options
OptConffile ==
    /\ opt.pc = "conffile"
    /\ LET rd == conffile_system_read(opt.conf, opt.file)
       IN  opt' = IF rd.ret # 0 THEN [opt EXCEPT !.pc = "exit", !.code = E_INTERNAL]
                  ELSE [opt EXCEPT !.pc = "configured", !.conf = rd.conf]
    /\ UNCHANGED opt_frame

OptNext ==
    \/ OptGetopt
    \/ OptArgs
    \/ OptConffile

OptSpec == OptInit /\ [][OptNext]_vars

\* C24: an invocation with -F whose configuration file allows fsck for the
\* caller comes out of its start with run_fsck set, and one whose
\* configuration does not allow it exits with E_DISALLOWED.
C24_FsckWhenAllowed ==
    LET allowed == opt.file.kind = "read" /\ ci_bool_allowed(opt.file.fsck, opt.uid)
    IN  (opt.F /\ opt.pc \notin {"none", "getopt"}) =>
           IF allowed
           THEN opt.code # E_DISALLOWED /\ (opt.pc = "configured" => opt.run_fsck)
           ELSE opt.pc = "exit" /\ opt.code = E_DISALLOWED

(* ---- utils.c: get_root, drop_root and the other privilege changes ---- *)

\* the invoking user and group, and the group of a setgid installation
Root == 0
User == 1000
UserGid == 1000
InstallGid == 50
Keep == -1

\* setresuid of the kernel: -1 keeps an id; a process whose effective uid is
\* not 0 may only choose among its three current ids. ok = FALSE is the
\* call that fails for another reason. The result carries the return value.
setresuid(c, r, e, s, ok) ==
    LET mine == {c.ruid, c.euid, c.suid, Keep} IN
    IF ok /\ (c.euid = Root \/ {r, e, s} \subseteq mine)
    THEN [c EXCEPT !.ruid = IF r = Keep THEN @ ELSE r,
                   !.euid = IF e = Keep THEN @ ELSE e,
                   !.suid = IF s = Keep THEN @ ELSE s,
                   !.ret = 0]
    ELSE [c EXCEPT !.ret = -1]

\* setresgid: the same for the group ids, the privilege being effective uid 0
setresgid(c, r, e, s, ok) ==
    LET mine == {c.rgid, c.egid, c.sgid, Keep} IN
    IF ok /\ (c.euid = Root \/ {r, e, s} \subseteq mine)
    THEN [c EXCEPT !.rgid = IF r = Keep THEN @ ELSE r,
                   !.egid = IF e = Keep THEN @ ELSE e,
                   !.sgid = IF s = Keep THEN @ ELSE s,
                   !.ret = 0]
    ELSE [c EXCEPT !.ret = -1]

seteuid(c, e, ok) == setresuid(c, Keep, e, Keep, ok)

\* setuid: all three ids for effective uid 0, else the effective uid only,
\* and only to the real or the saved uid
setuid(c, u, ok) ==
    IF c.euid = Root THEN setresuid(c, u, u, u, ok)
    ELSE IF u \in {c.ruid, c.suid} THEN setresuid(c, Keep, u, Keep, ok)
    ELSE [c EXCEPT !.ret = -1]

\* exit(E_INTERNAL) after a privilege change that failed
PrivExit(c) == [c EXCEPT !.pc = "exited", !.code = E_INTERNAL, !.failed = TRUE]

\* get_root: effective uid := saved uid, checked twice
get_root(c, ok) ==
    LET c1 == setresuid(c, Keep, c.suid, Keep, ok) IN
    IF c1.ret < 0 THEN PrivExit(c1)
    ELSE IF c1.euid # c.suid THEN PrivExit(c1)
    ELSE c1

\* drop_root: effective uid := real uid, checked twice
drop_root(c, ok) ==
    LET c1 == setresuid(c, Keep, c.ruid, Keep, ok) IN
    IF c1.ret < 0 THEN PrivExit(c1)
    ELSE IF c1.euid # c.ruid THEN PrivExit(c1)
    ELSE c1

get_groot(c, ok) ==
    LET c1 == setresgid(c, Keep, c.sgid, Keep, ok) IN
    IF c1.ret < 0 THEN PrivExit(c1)
    ELSE IF c1.egid # c.sgid THEN PrivExit(c1)
    ELSE c1

drop_groot(c, ok) ==
    LET c1 == setresgid(c, Keep, c.rgid, Keep, ok) IN
    IF c1.ret < 0 THEN PrivExit(c1)
    ELSE IF c1.egid # c.rgid THEN PrivExit(c1)
    ELSE c1

\* a drop that gives up the effective uid only, as drop_root does
drop_root_permanently_euid(c, ok, gok) == drop_root(c, ok)

\* drop_root_permanently: effective and saved uid := real uid, then the
\* same for the group ids, each checked
drop_root_permanently(c, ok, gok) ==
    LET c1 == setresuid(c, Keep, c.ruid, c.ruid, ok)
        c2 == setresgid(c1, Keep, c.rgid, c.rgid, gok)
    IN  IF c1.ret < 0 THEN PrivExit(c1)
        ELSE IF c1.ruid # c.ruid \/ c1.euid # c.ruid \/ c1.suid # c.ruid
        THEN PrivExit(c1)
        ELSE IF c2.ret < 0 THEN PrivExit(c2)
        ELSE IF c2.rgid # c.rgid \/ c2.egid # c.rgid \/ c2.sgid # c.rgid
        THEN PrivExit(c2)
        ELSE [c2 EXCEPT !.perm = TRUE]

\* a hand-over that execs mount right after get_root
do_mount_fstab_root(c, ok, sok, exec) ==
    LET c1 == get_root(c, ok) IN
    IF c1.pc = "exited" THEN c1
    ELSE IF exec THEN [c1 EXCEPT !.pc = "exec"]
    ELSE [c1 EXCEPT !.pc = "returned", !.code = E_EXECMOUNT]

\* do_mount_fstab and the return of main() after it: get_root, setuid to
\* the real uid, exec of mount; E_EXECMOUNT when setuid or the exec failed
do_mount_fstab(c, ok, sok, exec) ==
    LET c1 == get_root(c, ok)
        c2 == setuid(c1, c1.ruid, sok)
    IN  IF c1.pc = "exited" THEN c1
        ELSE IF c2.ret # 0
        THEN [c2 EXCEPT !.pc = "returned", !.code = E_EXECMOUNT, !.failed = TRUE]
        ELSE IF exec THEN [c2 EXCEPT !.pc = "exec"]
        ELSE [c2 EXCEPT !.pc = "returned", !.code = E_EXECMOUNT]

\* what no step of PrivSpec reads or writes
priv_frame == <<main_vars, image, call, probe, opt, mt, sp, nm>>

\* a process of pmount or pumount as it enters main(): installed setuid
\* root or not, installed setgid or not
PrivInit ==
    /\ proc = [p \in Procs |-> Idle]
    /\ runs = 0
    /\ mounted = [m \in Mntpts |-> NoDev]
    /\ dir = [m \in Mntpts |-> "absent"]
    /\ sentinel = [m \in Mntpts |-> 0]
    /\ lockf = [i \in Inodes |-> 0]
    /\ lockdir = [d \in RawDevs |-> FALSE]
    /\ lockfiles = [d \in RawDevs |-> {}]
    /\ alive = Pids
    /\ loopBound = FALSE
    /\ luksMap = {}
    /\ luksLock = {}
    /\ image = NoImage
    /\ call = NoCall
    /\ probe = NoProbe
    /\ opt = NoOpt
    /\ mt = NoMt
    /\ sp = NoSp
    /\ nm = NoNm
    /\ \E prog \in {"pmount", "pumount"}, fileuid \in {Root, User},
          filegid \in {UserGid, InstallGid, Root} :
          cred = [pc |-> "start", prog |-> prog,
                  ruid |-> User, euid |-> fileuid, suid |-> fileuid,
                  rgid |-> UserGid, egid |-> filegid, sgid |-> filegid,
                  ret |-> 0, code |-> 0, failed |-> FALSE, perm |-> FALSE,
                  after |-> FALSE]

\* main(): "are we root?", then the first drop: pmount tests what seteuid
\* returns, pumount does not
PrivStart ==
    /\ cred.pc = "start"
    /\ \E ok \in BOOLEAN :
         LET c1 == seteuid(cred, cred.ruid, ok) IN
         cred' = IF cred.euid # Root
                 THEN [cred EXCEPT !.pc = "returned", !.code = E_INTERNAL]
                 ELSE IF cred.prog = "pmount" /\ c1.ret # 0
                 THEN [c1 EXCEPT !.pc = "returned", !.code = E_INTERNAL,
                                 !.failed = TRUE]
                 ELSE [c1 EXCEPT !.pc = "main", !.failed = (c1.ret # 0)]
    /\ UNCHANGED priv_frame

\* a helper enters its privileged block: get_root()
PrivGetRoot ==
    /\ cred.pc = "main"
    /\ \E ok \in BOOLEAN :
         LET c1 == get_root(cred, ok) IN
         cred' = IF c1.pc = "exited" THEN c1
                 ELSE [c1 EXCEPT !.pc = "root", !.after = cred.perm]
    /\ UNCHANGED priv_frame

\* inside the block of get_root: get_groot() for the files that are made
\* with the group of the installation
PrivGetGroot ==
    /\ cred.pc = "root"
    /\ \E ok \in BOOLEAN :
         LET c1 == get_groot(cred, ok) IN
         cred' = IF c1.pc = "exited" THEN c1 ELSE [c1 EXCEPT !.pc = "groot"]
    /\ UNCHANGED priv_frame

PrivDropGroot ==
    /\ cred.pc = "groot"
    /\ \E ok \in BOOLEAN :
         LET c1 == drop_groot(cred, ok) IN
         cred' = IF c1.pc = "exited" THEN c1 ELSE [c1 EXCEPT !.pc = "root"]
    /\ UNCHANGED priv_frame

\* the helper leaves its privileged block: drop_root()
PrivDropRoot ==
    /\ cred.pc = "root"
    /\ \E ok \in BOOLEAN :
         LET c1 == drop_root(cred, ok) IN
         cred' = IF c1.pc = "exited" THEN c1 ELSE [c1 EXCEPT !.pc = "main"]
    /\ UNCHANGED priv_frame

\* main() of pmount opens the device to see that a medium is there:
\* get_root(), open(), and drop_root() only when open() succeeded
PrivOpenDevice ==
    /\ cred.pc = "main" /\ cred.prog = "pmount"
    /\ \E ok \in BOOLEAN, fd \in {-1, 3}, dok \in BOOLEAN :
         LET c1 == get_root(cred, ok)
             c2 == drop_root(c1, dok)
         IN
         /\ (~ok \/ fd = -1) => dok
         /\ cred' = IF c1.pc = "exited" THEN c1
                    ELSE IF fd = -1
                    THEN [c1 EXCEPT !.pc = "returned", !.code = E_DEVICE]
                    ELSE c2
    /\ UNCHANGED priv_frame

\* the device is in /etc/fstab: do_mount_fstab, and return E_EXECMOUNT
PrivMountFstab ==
    /\ cred.pc = "main" /\ cred.prog = "pmount"
    /\ \E ok \in BOOLEAN, sok \in BOOLEAN, exec \in BOOLEAN :
         /\ ~ok => sok /\ exec
         /\ ~sok => exec
         /\ cred' = do_mount_fstab(cred, ok, sok, exec)
    /\ UNCHANGED priv_frame

\* drop_root_permanently()
PrivDropPermanently ==
    /\ cred.pc = "main" /\ ~cred.perm
    /\ \E ok \in BOOLEAN, gok \in BOOLEAN :
         /\ ~ok => gok
         /\ cred' = drop_root_permanently(cred, ok, gok)
    /\ UNCHANGED priv_frame

\* main() returns
PrivReturn ==
    /\ cred.pc = "main"
    /\ cred' = [cred EXCEPT !.pc = "returned", !.code = EXIT_SUCCESS]
    /\ UNCHANGED priv_frame

PrivNext ==
    \/ PrivStart
    \/ PrivGetRoot
    \/ PrivGetGroot
    \/ PrivDropGroot
    \/ PrivDropRoot
    \/ PrivOpenDevice
    \/ PrivMountFstab
    \/ PrivDropPermanently
    \/ PrivReturn

PrivSpec == PrivInit /\ [][PrivNext]_vars

\* C25: the hand-over of a device of /etc/fstab execs mount only with the
\* real, effective and saved uid all equal to the invoking user, ends with
\* E_EXECMOUNT only when mount was not exec'ed, and creates no mount point,
\* lock, loop or LUKS state.
C25_FstabHandOver ==
    [][(cred.pc = "main" /\ cred' # cred) =>
         \A ok \in BOOLEAN, sok \in BOOLEAN, exec \in BOOLEAN :
            cred' = do_mount_fstab(cred, ok, sok, exec) =>
               /\ cred'.pc = "exec" =>
                     (cred'.ruid = User /\ cred'.euid = User /\ cred'.suid = User)
               /\ cred'.code = E_EXECMOUNT => cred'.pc = "returned"
               /\ UNCHANGED <<mounted, dir, sentinel, lockf, lockdir, lockfiles,
                              loopBound, luksMap, luksLock>>]_vars

\* pmount has handed over to mount
C25_Witness ==
    cred.pc = "exec" /\ cred.prog = "pmount" /\ cred.euid = User

\* C26: outside a block of get_root ... drop_root, and when main() has
\* returned, the effective uid of a process whose privilege changes all
\* succeeded is the real uid.
C26_DroppedOutsideBrackets ==
    (cred.pc \in {"main", "returned"} /\ ~cred.failed) => cred.euid = cred.ruid

\* C27: a process whose change of the effective uid or gid did not give the
\* intended identity has terminated.
C27_FailedChangeIsFatal ==
    (cred.pc # "none" /\ cred.failed) => cred.pc \in {"exited", "returned"}

\* C28: with real uid = user and saved uid = root, drop_root gives effective
\* uid = real uid and leaves the saved uid root; get_root after it gives
\* effective uid root; drop_root_permanently gives real, effective and saved
\* ids all equal to the real ids, and no get_root after it, whether its
\* system call succeeds or not, gives effective uid root.
C28_DropAndRegain ==
    /\ (cred.pc \in {"main", "root"} /\ cred.ruid = User /\ cred.suid = Root) =>
          LET d == drop_root(cred, TRUE)
              g == get_root(d, TRUE)
              p == drop_root_permanently(cred, TRUE, TRUE)
          IN  /\ d.pc = cred.pc /\ d.euid = User /\ d.suid = Root
              /\ g.pc = cred.pc /\ g.euid = Root
              /\ p.pc = cred.pc
              /\ p.ruid = User /\ p.euid = User /\ p.suid = User
              /\ p.rgid = cred.rgid /\ p.egid = cred.rgid /\ p.sgid = cred.rgid
              /\ \A ok \in BOOLEAN : get_root(p, ok).euid # Root
    /\ (cred.pc # "none" /\ cred.perm) => cred.euid # Root

\* get_root has been called after drop_root_permanently, and has returned
C28_Witness ==
    cred.pc = "root" /\ cred.perm /\ cred.after /\ cred.euid = User

\* ---------------------------------------------------------------------
\* The mount tables: fstab_has_device, device_mounted and the admission
\* of pumount (policy.c, pumount.c)
\* ---------------------------------------------------------------------

\* device paths: a partition, a symbolic link to it, a node that has gone
\* missing, another partition
MtPaths == {"/dev/sdb1", "/dev/usb", "/dev/gone", "/dev/sdc1"}
\* the device arguments of pumount: these paths, a link to the link, and
\* two names given without their directory
MtDevices == MtPaths \cup {"/dev/chain", "sdb1", "gone"}
DEVDIR == "/dev/"
\* strncmp(device, DEVDIR, sizeof(DEVDIR) - 1) == 0
InDevDir(device) == device \in MtPaths \cup {"/dev/chain"}

\* the symbolic links: what readlink gives, "NULL" for a path that is no link
readlink(path) ==
    CASE path = "/dev/chain" -> "/dev/usb"
      [] path = "/dev/usb" -> "/dev/sdb1"
      [] OTHER -> "NULL"
\* realpath(3): the path with every link followed, "NULL" when the path
\* does not resolve to a file
RECURSIVE realpath(_)
realpath(path) ==
    IF path \in {"/dev/gone", "sdb1", "gone"} THEN "NULL"
    ELSE IF readlink(path) # "NULL" THEN realpath(readlink(path))
    ELSE path

\* a comparison of the paths as they are written
realdev_raw(path) == path
\* realdev / realdev_arg of fstab_has_device: the canonical path when
\* there is one, the path itself otherwise
realdev(path) == IF realpath(path) # "NULL" THEN realpath(path) ELSE path

\* mnt_opts of the entries
MntOpts == {"rw", "rw,uid=1000", "rw,uid=1001"}
\* hasmntopt(entry, "uid"), strchr '=' and atoi: -1 without the option
uid_option(mnt_opts) ==
    CASE mnt_opts = "rw,uid=1000" -> 1000
      [] mnt_opts = "rw,uid=1001" -> 1001
      [] OTHER -> -1

\* directory names are strings of characters; NullStr is also the NULL
\* pointer and the unset buffer
NullStr == <<>>
MEDIADIR == <<"/", "m", "e", "d", "i", "a", "/">>
MediaUsb == MEDIADIR \o <<"u", "s", "b">>
Media2Usb == <<"/", "m", "e", "d", "i", "a", "2", "/", "u", "s", "b">>
MntOld == <<"/", "m", "n", "t", "/", "o", "l", "d">>
\* where the entries of a device are mounted
MntDir(fsname) ==
    CASE fsname = "/dev/usb" -> MntOld
      [] fsname = "/dev/sdc1" -> Media2Usb
      [] OTHER -> MediaUsb
\* realpath(MEDIADIR, mediadir): the canonical path has no trailing '/'
mediadir == SubSeq(MEDIADIR, 1, Len(MEDIADIR) - 1)
\* strncmp(s1, s2, n) == 0
strncmp_eq(s1, s2, n) ==
    SubSeq(s1, 1, IF Len(s1) < n THEN Len(s1) ELSE n)
        = SubSeq(s2, 1, IF Len(s2) < n THEN Len(s2) ELSE n)
\* the test "mount point must be below MEDIADIR" of check_umount_policy
BelowMediaDir(mntpt) == strncmp_eq(mntpt, mediadir, Len(mediadir))

\* entries of a table file, as getmntent returns them
MntEntries == {[mnt_fsname |-> f, mnt_dir |-> MntDir(f), mnt_opts |-> o] :
                  f \in MtPaths, o \in MntOpts}
\* longest /etc/mtab, longest /proc/mounts
MaxMtab == 2
MaxMounts == 1
TablesUpTo(n) == UNION {[1 .. k -> MntEntries] : k \in 0 .. n}
\* /etc/fstab: empty, or with an entry for the link
FstabFiles == {<<>>, <<[mnt_fsname |-> "/dev/usb", mnt_dir |-> MediaUsb,
                        mnt_opts |-> "rw"]>>}

\* fstab_has_device found nothing: NULL, *mntpt = 0, *uid not written
NotFound == [found |-> FALSE, device |-> "NULL", mntpt |-> NullStr, uid |-> -1]

\* the getmntent loop of fstab_has_device from entry i on: the first entry
\* whose device resolves to the same path as the argument
RECURSIVE fstab_loop(_, _, _)
fstab_loop(tab, device, i) ==
    IF i > Len(tab) THEN NotFound
    ELSE IF realdev(tab[i].mnt_fsname) = realdev(device)
    THEN [found |-> TRUE, device |-> tab[i].mnt_fsname,
          mntpt |-> tab[i].mnt_dir, uid |-> uid_option(tab[i].mnt_opts)]
    ELSE fstab_loop(tab, device, i + 1)

\* a fstab_has_device that returns the canonical path of the entry
fstab_has_device_real(tab, device) ==
    LET e == fstab_loop(tab, device, 1) IN
    IF e.found THEN [e EXCEPT !.device = realdev(@)] ELSE e

fstab_has_device(tab, device) == fstab_loop(tab, device, 1)

\* a device_mounted that never looks at the owner of the mount
device_mounted_any_owner(m, device, expect) ==
    LET a == fstab_has_device(m.mtab, device)
        e == IF a.found THEN a ELSE fstab_has_device(m.mounts, device)
    IN [ret |-> IF e.found THEN 1 ELSE 0, mntpt |-> e.mntpt]

\* device_mounted(device, expect, mntpt) on the tables and for the caller
\* of m: /etc/mtab first, /proc/mounts when /etc/mtab has no entry
device_mounted_expect(m, device, expect) ==
    LET a == fstab_has_device(m.mtab, device)
        e == IF a.found THEN a ELSE fstab_has_device(m.mounts, device)
    IN IF e.found /\ expect = 1 /\ e.uid >= 0 /\ e.uid # m.caller
          /\ m.caller > 0
       THEN [ret |-> 0, mntpt |-> NullStr]
       ELSE [ret |-> IF e.found THEN 1 ELSE 0, mntpt |-> e.mntpt]

\* device_valid(device): the node exists and is a block device
device_valid(device) == realpath(device) # "NULL"

\* a check_umount_policy that never accepts a device without its node
check_umount_policy_node(m, device, ok_if_inexistant, conf_mntpt) ==
    LET dm == device_mounted_expect(m, device, 1) IN
    IF ~device_valid(device) \/ dm.ret = 0 THEN -1
    ELSE IF ~BelowMediaDir(dm.mntpt)
            /\ ~(conf_mntpt # NullStr /\ dm.mntpt = conf_mntpt) THEN -1
    ELSE 0

\* check_umount_policy(device, ok_if_inexistant), conf_mntpt the mount
\* point the configuration file gives for the device
check_umount_policy(m, device, ok_if_inexistant, conf_mntpt) ==
    LET dm == device_mounted_expect(m, device, 1) IN
    IF ~((ok_if_inexistant = 1 \/ device_valid(device)) /\ dm.ret # 0) THEN -1
    ELSE IF ~BelowMediaDir(dm.mntpt)
            /\ ~(conf_mntpt # NullStr /\ dm.mntpt = conf_mntpt) THEN -1
    ELSE 0

mt_frame == <<main_vars, image, call, probe, opt, cred, sp, nm>>

\* pumount (or pmount) about to ask for a device: the three table files,
\* the real uid of the caller, the device
MtabInit ==
    /\ proc = [p \in Procs |-> Idle]
    /\ runs = 0
    /\ mounted = [m \in Mntpts |-> NoDev]
    /\ dir = [m \in Mntpts |-> "absent"]
    /\ sentinel = [m \in Mntpts |-> 0]
    /\ lockf = [i \in Inodes |-> 0]
    /\ lockdir = [d \in RawDevs |-> FALSE]
    /\ lockfiles = [d \in RawDevs |-> {}]
    /\ alive = Pids
    /\ loopBound = FALSE
    /\ luksMap = {}
    /\ luksLock = {}
    /\ image = NoImage
    /\ call = NoCall
    /\ probe = NoProbe
    /\ opt = NoOpt
    /\ cred = NoCred
    /\ sp = NoSp
    /\ nm = NoNm
    /\ \E mtab \in TablesUpTo(MaxMtab), mounts \in TablesUpTo(MaxMounts),
          fstab \in FstabFiles, caller \in {Root, User}, device \in MtDevices :
          mt = [pc |-> "start", mtab |-> mtab, mounts |-> mounts,
                fstab |-> fstab, caller |-> caller, device |-> device,
                expect |-> 0, ret |-> 0, mntpt |-> NullStr,
                arg |-> device, lazy |-> FALSE, fsname |-> "NULL",
                conf_mntpt |-> NullStr, admission |-> FALSE, umount |-> "none", code |-> 0]

\* one call device_mounted(device, expect, mntpt): expect = 0 from the mount
\* policy of pmount, expect = 1 from pumount
MtDeviceMounted ==
    /\ mt.pc = "start"
    /\ \E expect \in {0, 1} :
         LET dm == device_mounted_expect(mt, mt.device, expect) IN
         mt' = [mt EXCEPT !.pc = "called", !.expect = expect,
                          !.ret = dm.ret, !.mntpt = dm.mntpt]
    /\ UNCHANGED mt_frame

\* do_umount_fstab for a device of /etc/fstab when device_mounted(device,
\* 1, NULL), return 0 when it is not mounted: the end of main()
MtFstab(m, device, lazy, status) ==
    LET dm == device_mounted_expect(m, device, 1) IN
    [m EXCEPT !.pc = "returned", !.device = device, !.lazy = lazy,
              !.expect = 1, !.ret = dm.ret,
              !.umount = IF dm.ret # 0 THEN "caller" ELSE "none",
              !.code = IF dm.ret # 0 /\ status # 0 THEN E_EXECUMOUNT ELSE 0]

\* one call fstab_has_device("/etc/mtab", device, NULL, NULL)
MtHasDevice ==
    /\ mt.pc = "start"
    /\ mt' = [mt EXCEPT !.pc = "looked",
                        !.fsname = fstab_has_device(mt.mtab, mt.device).device]
    /\ UNCHANGED mt_frame

\* main() of pumount without --all, from the realpath of the argument to
\* the call of umount_device: the device is looked up in /etc/fstab; an
\* argument that does not resolve is tried below DEVDIR unless the unmount
\* is lazy; the device must start with DEVDIR
MtMain ==
    /\ mt.pc = "start"
    /\ \E do_lazy \in BOOLEAN, status \in {0, 1} :
         LET is_real_path == realpath(mt.device) # "NULL"
             device == realdev(mt.device)
             d == DEVDIR \o device
             prepend == ~is_real_path /\ ~do_lazy /\ ~InDevDir(device)
             device2 == IF prepend /\ realpath(d) # "NULL"
                        THEN realpath(d) ELSE device
             exits(code) == [mt EXCEPT !.pc = "returned", !.lazy = do_lazy,
                                       !.device = device2, !.code = code]
         IN mt' = IF fstab_has_device(mt.fstab, device).found
                  THEN MtFstab(mt, device, do_lazy, status)
                  ELSE IF prepend /\ realpath(d) = "NULL"
                  THEN exits(E_DEVICE)
                  ELSE IF prepend /\ fstab_has_device(mt.fstab, device2).found
                  THEN MtFstab(mt, device2, do_lazy, status)
                  ELSE IF ~InDevDir(device2)
                  THEN exits(E_DEVICE)
                  ELSE [mt EXCEPT !.pc = "umount_device", !.lazy = do_lazy,
                                  !.device = device2]
    /\ UNCHANGED mt_frame

\* umount_device(): check_umount_policy(device, 1), E_POLICY when it fails;
\* the configuration file has no section for a device without its node
MtUmountDevice ==
    /\ mt.pc = "umount_device"
    /\ \E conf_mntpt \in {NullStr, MntOld} :
         LET dm == device_mounted_expect(mt, mt.device, 1)
             r == check_umount_policy(mt, mt.device, 1, conf_mntpt) IN
         /\ ~device_valid(mt.device) => conf_mntpt = NullStr
         /\ mt' = [mt EXCEPT !.admission = TRUE, !.expect = 1, !.ret = dm.ret,
                          !.mntpt = dm.mntpt, !.conf_mntpt = conf_mntpt,
                          !.pc = IF r # 0 THEN "returned" ELSE "do_umount",
                          !.code = IF r # 0 THEN E_POLICY ELSE 0]
    /\ UNCHANGED mt_frame

\* umount_device(): do_umount(device, do_lazy), umount run as root
MtDoUmount ==
    /\ mt.pc = "do_umount"
    /\ \E status \in {0, 1} :
         mt' = [mt EXCEPT !.pc = "returned", !.umount = "root",
                          !.code = IF status # 0 THEN E_EXECUMOUNT ELSE 0]
    /\ UNCHANGED mt_frame

MtabNext ==
    MtDeviceMounted \/ MtHasDevice \/ MtMain \/ MtUmountDevice \/ MtDoUmount

MtabSpec == MtabInit /\ [][MtabNext]_vars

\* the canonical path of a path: the partition behind the link, the path
\* itself where nothing stands behind it
Canonical(path) ==
    IF path \in {"/dev/usb", "/dev/chain"} THEN "/dev/sdb1" ELSE path

\* the entries of the live mount table that name the device of the query
\* by a path with the same canonical path
LiveEntries ==
    {e \in {mt.mtab[i] : i \in 1 .. Len(mt.mtab)}
           \cup {mt.mounts[i] : i \in 1 .. Len(mt.mounts)} :
        Canonical(e.mnt_fsname) = Canonical(mt.device)}
\* the entry that speaks for the device: the first of /etc/mtab that names
\* it, the first of /proc/mounts when /etc/mtab has none
MatchesIn(tab) ==
    {i \in 1 .. Len(tab) : Canonical(tab[i].mnt_fsname) = Canonical(mt.device)}
FirstIn(tab) == tab[CHOOSE i \in MatchesIn(tab) : \A j \in MatchesIn(tab) : i <= j]
LiveEntry ==
    IF MatchesIn(mt.mtab) # {} THEN FirstIn(mt.mtab) ELSE FirstIn(mt.mounts)
\* that entry declares, with uid=, an owner who is not the caller
ForeignOwner ==
    /\ LiveEntries # {}
    /\ LiveEntry.mnt_opts # "rw"
    /\ uid_option(LiveEntry.mnt_opts) # mt.caller

\* C29 (as stated): whatever the expected state, device_mounted returns
\* true exactly when the canonical path of the device is the canonical path
\* of the device of some entry of the live mount table
C29_MountedIffInTable ==
    mt.pc = "called" => (mt.ret = 1 <=> LiveEntries # {})

\* C29 (amended): device_mounted returns true exactly when the device is
\* in the live mount table by its canonical path, unless the expected state
\* is "mounted", the caller is not root and the entry that speaks for the
\* device declares another owner: then it returns false
C29_MountedIffInTableAndOwned ==
    mt.pc = "called" =>
        (mt.ret = 1 <=>
            /\ LiveEntries # {}
            /\ ~(mt.expect = 1 /\ ForeignOwner /\ mt.caller # Root))

\* a device given by a symbolic link is found, for its owner, under the
\* name of the partition
C29_Witness ==
    /\ mt.pc = "called"
    /\ mt.expect = 1
    /\ mt.ret = 1
    /\ mt.device = "/dev/usb"
    /\ mt.caller = User
    /\ LiveEntry.mnt_fsname = "/dev/sdb1"
    /\ LiveEntry.mnt_opts = "rw,uid=1000"

\* C30 (as stated): when the admission of pumount finds that the entry of
\* the device declares an owner who is not the caller, device_mounted
\* fails and pumount exits with E_POLICY and has not run umount, whoever
\* the caller is
C30_ForeignOwnerRefused ==
    (mt.admission /\ ForeignOwner) =>
        (mt.ret = 0 /\ mt.pc = "returned" /\ mt.code = E_POLICY
         /\ mt.umount = "none")

\* C30 (amended): the same for every caller but root; for root the owner
\* of the mount is not looked at
C30_ForeignOwnerRefusedUnlessRoot ==
    (mt.admission /\ ForeignOwner /\ mt.caller # Root) =>
        (mt.ret = 0 /\ mt.pc = "returned" /\ mt.code = E_POLICY
         /\ mt.umount = "none")

\* a user is refused the device another user mounted
C30_Witness ==
    /\ mt.admission
    /\ ForeignOwner
    /\ mt.caller = User
    /\ mt.code = E_POLICY
    /\ mt.umount = "none"

\* a path below the media root: the media root, a path separator and a name
StrictlyBelowMedia(mntpt) ==
    /\ Len(mntpt) > Len(MEDIADIR)
    /\ SubSeq(mntpt, 1, Len(MEDIADIR)) = MEDIADIR

\* C31: pumount runs umount for a device that /etc/fstab does not list
\* only when the mount directory of the live mount table is below the media
\* root or is the mount point the configuration file gives for the device;
\* when it is neither, pumount has exited with E_POLICY
C31_UmountBelowMediaRoot ==
    (mt.pc # "none" /\ mt.admission /\ mt.ret = 1) =>
        IF \/ StrictlyBelowMedia(mt.mntpt)
           \/ (mt.conf_mntpt # NullStr /\ mt.mntpt = mt.conf_mntpt)
        THEN TRUE
        ELSE mt.pc = "returned" /\ mt.code = E_POLICY /\ mt.umount = "none"

\* main() of pumount has run
AfterMain == mt.pc \in {"umount_device", "do_umount", "returned"}
\* the argument names a device whose node does not exist
MissingNode == mt.arg \in {"/dev/gone", "gone"}
\* pumount has ended without running umount, with one of these codes
RejectedWith(codes) ==
    mt.pc = "returned" /\ mt.code \in codes /\ mt.umount = "none"

C33_StampedDirRemoved ==
    [][\A p \in Procs :
         (proc[p].pc = "pu_umount" /\ proc'[p] # proc[p] /\ mounted' # mounted) =>
            LET m == proc[p].mntpt IN
            /\ dir[m] = "stamped" => dir'[m] = "absent"
            /\ dir[m] # "stamped" => dir'[m] = dir[m]
            /\ proc'[p].code = EXIT_SUCCESS]_vars

\* C34: fstab_has_device returns the device as the first entry of the table
\* whose canonical path is that of the queried device writes it, and NULL
\* when the table has no such entry
C34_FirstEntryRawSpec ==
    mt.pc = "looked" =>
        mt.fsname = IF MatchesIn(mt.mtab) = {} THEN "NULL"
                    ELSE FirstIn(mt.mtab).mnt_fsname

\* a query by a link to a link finds, behind an entry for another device,
\* an entry that is written with the link
C34_Witness ==
    /\ mt.pc = "looked"
    /\ mt.device = "/dev/chain"
    /\ Len(mt.mtab) = 2
    /\ mt.mtab[1].mnt_fsname = "/dev/sdc1"
    /\ mt.fsname = "/dev/usb"

\* ---------------------------------------------------------------------
\* spawnv (utils.c): one synchronous run of an external program
\* ---------------------------------------------------------------------

SpawnFlags == {"SPAWN_EROOT", "SPAWN_RROOT", "SPAWN_NO_STDOUT",
               "SPAWN_NO_STDERR", "SPAWN_SEARCHPATH", "SPAWN_SLURP_STDOUT",
               "SPAWN_SLURP_STDERR"}
DEVNULL_MASK == {"SPAWN_NO_STDOUT", "SPAWN_NO_STDERR"}
SLURP_MASK == {"SPAWN_SLURP_STDOUT", "SPAWN_SLURP_STDERR"}

\* what the program at path does: it cannot be executed, it is killed by a
\* signal, or it calls exit with a value
Programs == {[kind |-> "noexec", value |-> 0], [kind |-> "signal", value |-> 0]}
                \cup {[kind |-> "exit", value |-> v] : v \in {0, 1, 32, 100, 257}}
\* WEXITSTATUS: the low eight bits of the value given to exit
WEXITSTATUS(value) == value % 256
\* the wait status of a child that has not ended
NoChild == [how |-> "none", status |-> 0]

\* how the child ends once it has reached execv/execvp: exit(E_INTERNAL)
\* when the exec fails, else as the program ends
SpChildEnd(prog) ==
    IF prog.kind = "noexec" THEN [how |-> "exited", status |-> E_INTERNAL]
    ELSE IF prog.kind = "signal" THEN [how |-> "signaled", status |-> 0]
    ELSE [how |-> "exited", status |-> WEXITSTATUS(prog.value)]

sp_frame == <<main_vars, image, call, probe, opt, cred, mt, nm>>

\* a call spawnv(options, path, argv)
SpawnInit ==
    /\ proc = [p \in Procs |-> Idle]
    /\ runs = 0
    /\ mounted = [m \in Mntpts |-> NoDev]
    /\ dir = [m \in Mntpts |-> "absent"]
    /\ sentinel = [m \in Mntpts |-> 0]
    /\ lockf = [i \in Inodes |-> 0]
    /\ lockdir = [d \in RawDevs |-> FALSE]
    /\ lockfiles = [d \in RawDevs |-> {}]
    /\ alive = Pids
    /\ loopBound = FALSE
    /\ luksMap = {}
    /\ luksLock = {}
    /\ image = NoImage
    /\ call = NoCall
    /\ probe = NoProbe
    /\ opt = NoOpt
    /\ cred = NoCred
    /\ mt = NoMt
    /\ \E options \in SUBSET SpawnFlags, prog \in Programs :
          sp = [pc |-> "start", options |-> options, prog |-> prog,
                child |-> NoChild, executed |-> FALSE, ret |-> 0, code |-> 0]
    /\ nm = NoNm

\* pipe(fds) when output is slurped; exit(E_INTERNAL) when it fails
SpPipe ==
    /\ sp.pc = "start"
    /\ \E ok \in BOOLEAN :
         /\ (sp.options \cap SLURP_MASK = {}) => ok
         /\ sp' = IF ok THEN [sp EXCEPT !.pc = "fork"]
                  ELSE [sp EXCEPT !.pc = "exited", !.code = E_INTERNAL]
    /\ UNCHANGED sp_frame

\* fork(); exit(E_INTERNAL) when it fails
SpFork ==
    /\ sp.pc = "fork"
    /\ \E ok \in BOOLEAN :
         sp' = IF ok THEN [sp EXCEPT !.pc = "child"]
               ELSE [sp EXCEPT !.pc = "exited", !.code = E_INTERNAL]
    /\ UNCHANGED sp_frame

\* the child: get_root and setreuid as the options ask, the redirections,
\* execv or execvp; it exits with E_INTERNAL when a step before the exec
\* fails
SpChild ==
    /\ sp.pc = "child"
    /\ \E root_ok \in BOOLEAN, devnull_ok \in BOOLEAN :
         /\ (sp.options \cap {"SPAWN_EROOT", "SPAWN_RROOT"} = {}) => root_ok
         /\ (sp.options \cap DEVNULL_MASK = {}) => devnull_ok
         /\ sp' = IF root_ok /\ devnull_ok
                  THEN [sp EXCEPT !.pc = "wait", !.child = SpChildEnd(sp.prog),
                                  !.executed = (sp.prog.kind # "noexec")]
                  ELSE [sp EXCEPT !.pc = "wait",
                                  !.child = [how |-> "exited",
                                             status |-> E_INTERNAL]]
    /\ UNCHANGED sp_frame

\* the parent: the slurp of the output, wait(&status), WIFEXITED and
\* WEXITSTATUS; exit(E_INTERNAL) when the read or the wait fails or the
\* child did not exit
SpWait ==
    /\ sp.pc = "wait"
    /\ \E read_ok \in BOOLEAN, wait_ok \in BOOLEAN :
         /\ (sp.options \cap SLURP_MASK = {}) => read_ok
         /\ sp' = IF read_ok /\ wait_ok /\ sp.child.how = "exited"
                  THEN [sp EXCEPT !.pc = "returned", !.ret = sp.child.status]
                  ELSE [sp EXCEPT !.pc = "exited", !.code = E_INTERNAL]
    /\ UNCHANGED sp_frame

SpawnNext == SpPipe \/ SpFork \/ SpChild \/ SpWait

SpawnSpec == SpawnInit /\ [][SpawnNext]_vars

\* C35: spawnv returns after the child has ended; it returns the exit status
\* of the program when the program ran, and -1 when the program could not
\* be executed
C35_StatusOrMinusOne ==
    sp.pc = "returned" =>
        /\ sp.child.how = "exited"
        /\ sp.executed => sp.ret = WEXITSTATUS(sp.prog.value)
        /\ sp.prog.kind = "noexec" => sp.ret = -1

\* the step of a mount run whose fsck or mount failed
FailedStep(p, pcs) ==
    /\ proc[p].pc \in pcs /\ proc'[p] # proc[p]
    /\ MountRun(proc[p]) /\ proc[p].result # 0
\* what the invocation has to release
OpenedMapping(r) == r.decrypt = "DECRYPT_OK" /\ r.device \in luksMap
BoundLoop(r) == r.doing_loop_mount /\ loopBound

\* C36 (as stated): after a failed fsck or mount the LUKS mapping is
\* released and the loop device dissociated before the mount point is
\* unlocked, the directory is removed after it, and the exit status is
\* E_EXECMOUNT
C36_ReleaseBeforeUnlock ==
    [][\A p \in Procs :
         /\ FailedStep(p, {"unlock_open"}) =>
                ~OpenedMapping(proc[p]) /\ ~BoundLoop(proc[p])
         /\ FailedStep(p, {"finish"}) => proc'[p].code = E_EXECMOUNT]_vars

\* C36 (amended): after a failed fsck or mount the mount point is unlocked
\* first, and nothing is released while it is being unlocked; then, without
\* the lock, the mapping is closed if its lockfile exists, the loop device
\* is dissociated and the stamped directory is removed, and the exit status
\* is E_EXECMOUNT, or EXIT_FAILURE when the directory could not be removed;
\* when luksClose fails the process exits at once with E_INTERNAL, the loop
\* device still bound and the directory still there
C36_UnlockBeforeRelease ==
    [][\A p \in Procs :
         LET r == proc[p]
             m == r.mntpt
             close == r.decrypt = "DECRYPT_OK" /\ r.device \in luksLock
         IN
         /\ FailedStep(p, {"unlock_open", "unlock_ulock", "unlock_unlink"}) =>
                /\ ~proc'[p].inLock
                /\ <<luksMap', luksLock', loopBound', dir'>>
                       = <<luksMap, luksLock, loopBound, dir>>
         /\ FailedStep(p, {"finish"}) =>
                /\ ~r.inLock
                /\ \A luksClose \in ToolStatus :
                     FinishWith(p, luksClose) =>
                        IF close /\ luksClose # 0
                        THEN /\ proc'[p].code = E_INTERNAL
                             /\ <<luksMap', loopBound', dir'>>
                                    = <<luksMap, loopBound, dir>>
                        ELSE /\ close => r.device \notin luksMap'
                             /\ r.doing_loop_mount => ~loopBound'
                             /\ (dir[m] = "stamped" /\ ~mntpt_mounted(m))
                                    => dir'[m] = "absent"
                             /\ proc'[p].code =
                                  IF dir[m] = "stamped" /\ mntpt_mounted(m)
                                  THEN EXIT_FAILURE ELSE E_EXECMOUNT]_vars

\* a mount failed under the lock, and the mapping was closed and the loop
\* device dissociated without the lock: the run ended with E_EXECMOUNT
C36_Witness ==
    \E p \in Procs :
        /\ proc[p].pc = "done" /\ proc[p].code = E_EXECMOUNT
        /\ "mount" \in proc[p].toolsInLock
        /\ {"luksClose", "losetup"} \subseteq proc[p].toolsOutLock

\* C37: whenever an invocation of pmount runs mount, nothing is mounted on
\* its mount point and its device is not mounted: what the policy check
\* found still holds
C37_MountOnFreeTarget ==
    [][\A p \in Procs :
         (/\ proc[p].pc = "mount" /\ proc'[p] # proc[p]
          /\ MountRun(proc[p]) /\ "mount" \in Tools(proc'[p])) =>
            /\ ~mntpt_mounted(proc[p].mntpt)
            /\ ~device_mounted(decrypted_device(proc[p]))]_vars

\* the options of an attempt, as a set
OptionSet(a) == {a.options[i] : i \in DOMAIN a.options}

\* C38: every attempt that ran mount names a filesystem of the table, with
\* nosuid and nodev among the options, and noexec unless -e was given;
\* uid= and gid= are there only for a filesystem with support_ugid, umask=
\* only for one that declares a umask
C38_SafeMountOptions ==
    probe.pc # "none" =>
        \A k \in DOMAIN probe.tried :
            LET a == probe.tried[k]
                o == OptionSet(a)
            IN a.result # -1 =>
                /\ a.fsname \in FsNames
                /\ {"nosuid", "nodev"} \subseteq o
                /\ "noexec" \in o <=> ~probe.in.exec
                /\ "exec" \in o => probe.in.exec
                /\ ({"uid=", "gid="} \cap o # {})
                      => supported_fs[FsIndex(a.fsname)].support_ugid
                /\ "umask=" \in o
                      => supported_fs[FsIndex(a.fsname)].umask # "NULL"

\* an autodetection with -e that tried vfat with uid=, gid= and umask= and
\* then ext4 without them
C38_Witness ==
    /\ probe.pc = "returned" /\ probe.in.exec
    /\ \E j, k \in DOMAIN probe.tried :
          /\ j < k
          /\ probe.tried[j].fsname = "vfat"
          /\ {"uid=", "gid=", "umask=", "exec"} \subseteq OptionSet(probe.tried[j])
          /\ probe.tried[k].fsname = "ext4" /\ probe.tried[k].result = 0
          /\ {"uid=", "gid=", "umask="} \cap OptionSet(probe.tried[k]) = {}

\* ---------------------------------------------------------------------
\* pmount, main(): from the device argument to the name of the mount point
\* (realpath, the two /etc/fstab lookups, the retry below DEVDIR, the
\* DEVDIR test and make_mountpoint_name).  The device arguments are those
\* of the pumount unit; none of them is a mount point of /etc/fstab and
\* those that resolve are block devices.
\* ---------------------------------------------------------------------

\* the characters of a path of the unit
CharsOf(path) ==
    CASE path = "/dev/"      -> <<"/", "d", "e", "v", "/">>
      [] path = "/dev/sdb1"  -> <<"/", "d", "e", "v", "/", "s", "d", "b", "1">>
      [] path = "/dev/usb"   -> <<"/", "d", "e", "v", "/", "u", "s", "b">>
      [] path = "/dev/gone"  -> <<"/", "d", "e", "v", "/", "g", "o", "n", "e">>
      [] path = "/dev/sdc1"  -> <<"/", "d", "e", "v", "/", "s", "d", "c", "1">>
      [] path = "/dev/chain" ->
             <<"/", "d", "e", "v", "/", "c", "h", "a", "i", "n">>
      [] path = "sdb1"       -> <<"s", "d", "b", "1">>
      [] path = "gone"       -> <<"g", "o", "n", "e">>

\* longest label or device name make_mountpoint_name accepts (255 in
\* policy.h, scaled to the names of the unit)
MAX_LABEL_SIZE == 9
\* longest label drawn character by character
MaxLabel == 3
LabelChars == {"/", ".", "a"}
LabelBodies == UNION {[1 .. k -> LabelChars] : k \in 0 .. MaxLabel}
LongLabel == [i \in 1 .. (MAX_LABEL_SIZE + 1) |-> "a"]
\* the label argument: a name, a name behind MEDIADIR, a name too long
Labels == LabelBodies \cup {MEDIADIR \o b : b \in LabelBodies} \cup {LongLabel}

\* strreplace(s, from, to)
strreplace(s, from, to) ==
    [i \in 1 .. Len(s) |-> IF s[i] = from THEN to ELSE s[i]]

\* strchr(s, c) != NULL
strchr(s, c) == \E i \in 1 .. Len(s) : s[i] = c

\* make_mountpoint_name(device, label, mntpt, mntpt_size); has_label is
\* "label != NULL".  mntpt has room for MEDIADIR and MAX_LABEL_SIZE
\* characters, so snprintf never cuts the name.
make_mountpoint_name(device, has_label, arg2) ==
    LET media_dir_len == Len(MEDIADIR)
        label == IF strncmp_eq(arg2, MEDIADIR, media_dir_len)
                 THEN SubSeq(arg2, media_dir_len + 1, Len(arg2))
                 ELSE arg2
        dev == CharsOf(device)
        devdir_len == Len(CharsOf(DEVDIR))
        chopped == IF strncmp_eq(dev, CharsOf(DEVDIR), devdir_len)
                   THEN SubSeq(dev, devdir_len + 1, Len(dev))
                   ELSE dev
        failure == [ret |-> -1, mntpt |-> NullStr]
    IN IF has_label
       THEN IF label = <<>> THEN failure
            ELSE IF Len(label) > MAX_LABEL_SIZE THEN failure
            ELSE IF strchr(label, "/") THEN failure
            ELSE [ret |-> 0, mntpt |-> MEDIADIR \o label]
       ELSE IF Len(dev) > MAX_LABEL_SIZE THEN failure
            ELSE [ret |-> 0,
                  mntpt |-> MEDIADIR \o strreplace(chopped, "/", "_")]

nm_frame == <<main_vars, image, call, probe, opt, cred, mt, sp>>

NameInit ==
    /\ proc = [p \in Procs |-> Idle]
    /\ runs = 0
    /\ mounted = [m \in Mntpts |-> NoDev]
    /\ dir = [m \in Mntpts |-> "absent"]
    /\ sentinel = [m \in Mntpts |-> 0]
    /\ lockf = [i \in Inodes |-> 0]
    /\ lockdir = [d \in RawDevs |-> FALSE]
    /\ lockfiles = [d \in RawDevs |-> {}]
    /\ alive = Pids
    /\ loopBound = FALSE
    /\ luksMap = {}
    /\ luksLock = {}
    /\ image = NoImage
    /\ call = NoCall
    /\ probe = NoProbe
    /\ opt = NoOpt
    /\ cred = NoCred
    /\ mt = NoMt
    /\ sp = NoSp
    /\ \E devarg \in MtDevices, has_label \in BOOLEAN, arg2 \in Labels,
          fstab \in FstabFiles :
          /\ ~has_label => arg2 = NullStr
          /\ nm = [pc |-> "start", devarg |-> devarg, has_label |-> has_label,
                   arg2 |-> arg2, fstab |-> fstab, device |-> devarg,
                   is_real_path |-> FALSE, mntpt |-> NullStr, code |-> 0]

\* main() leaves with a code; do_mount_fstab has run mount when the code is
\* E_EXECMOUNT
NmReturn(n, code) == [n EXCEPT !.pc = "returned", !.code = code]

\* realpath(devarg), strdup(devarg) when it fails, first /etc/fstab lookup
NmRealpath ==
    /\ nm.pc = "start"
    /\ LET is_real_path == realpath(nm.devarg) # "NULL"
           device == IF is_real_path THEN realpath(nm.devarg) ELSE nm.devarg
           n == [nm EXCEPT !.device = device, !.is_real_path = is_real_path]
       IN nm' = IF fstab_has_device(nm.fstab, device).found
                THEN NmReturn(n, E_EXECMOUNT)
                ELSE [n EXCEPT !.pc = "prepend"]
    /\ UNCHANGED nm_frame

\* "try to prepend '/dev'": asprintf returns the number of characters it
\* wrote, -1 when it has no memory
NmPrepend ==
    /\ nm.pc = "prepend"
    /\ \E written \in {-1, Len(CharsOf(DEVDIR)) + Len(CharsOf(nm.device))} :
         LET dev_device == DEVDIR \o nm.device
             realpath_dev_device == realpath(dev_device)
             n == [nm EXCEPT !.device = realpath_dev_device]
         IN nm' = IF nm.is_real_path \/ InDevDir(nm.device)
                  THEN [nm EXCEPT !.pc = "devdir"]
                  ELSE IF written # 0
                  THEN NmReturn(nm, E_INTERNAL)
                  ELSE IF realpath_dev_device = "NULL"
                  THEN NmReturn(nm, E_DEVICE)
                  ELSE IF fstab_has_device(nm.fstab, realpath_dev_device).found
                  THEN NmReturn(n, E_EXECMOUNT)
                  ELSE [n EXCEPT !.pc = "devdir"]
    /\ UNCHANGED nm_frame

\* "does the device start with DEVDIR?"
NmDevDir ==
    /\ nm.pc = "devdir"
    /\ nm' = IF ~InDevDir(nm.device)
             THEN NmReturn(nm, E_DEVICE)
             ELSE [nm EXCEPT !.pc = "name"]
    /\ UNCHANGED nm_frame

\* case MOUNT: make_mountpoint_name(devarg, arg2, mntpt, sizeof(mntpt))
NmMountpointName ==
    /\ nm.pc = "name"
    /\ LET r == make_mountpoint_name(nm.devarg, nm.has_label, nm.arg2) IN
       nm' = IF r.ret # 0
             THEN NmReturn(nm, E_MNTPT)
             ELSE [nm EXCEPT !.pc = "named", !.mntpt = r.mntpt]
    /\ UNCHANGED nm_frame

NameNext == NmRealpath \/ NmPrepend \/ NmDevDir \/ NmMountpointName

NameSpec == NameInit /\ [][NameNext]_vars

\* the part of a mount point name behind MEDIADIR
NameBelowMedia(mntpt) == SubSeq(mntpt, Len(MEDIADIR) + 1, Len(mntpt))

\* C39: for every label or device name make_mountpoint_name accepts, the
\* mount point is MEDIADIR followed by exactly one non-empty component that
\* has no '/' and is neither "." nor "..".
C39_TargetInsideMediaRoot ==
    nm.pc = "named" =>
        /\ Len(nm.mntpt) > Len(MEDIADIR)
        /\ SubSeq(nm.mntpt, 1, Len(MEDIADIR)) = MEDIADIR
        /\ \A i \in 1 .. Len(NameBelowMedia(nm.mntpt)) :
               NameBelowMedia(nm.mntpt)[i] # "/"
        /\ NameBelowMedia(nm.mntpt) \notin {<<".">>, <<".", ".">>}

\* C40: when the device argument has no real path and does not start with
\* /dev/, pmount retries with /dev/ before it: when /dev/<argument> resolves
\* it goes on with that canonical device (to the /dev/ test, or to mount by
\* /etc/fstab when the second lookup finds it), when it does not resolve
\* pmount exits with E_DEVICE.
C40_RetryBelowDevDir ==
    [][(nm.pc = "prepend" /\ ~nm.is_real_path /\ ~InDevDir(nm.device)) =>
         IF realpath(DEVDIR \o nm.device) # "NULL"
         THEN /\ nm'.device = realpath(DEVDIR \o nm.device)
              /\ \/ nm'.pc = "devdir"
                 \/ nm'.pc = "returned" /\ nm'.code = E_EXECMOUNT
         ELSE nm'.pc = "returned" /\ nm'.code = E_DEVICE]_vars

====
